---- MODULE Spec2Model ----
(***************************************************************************)
(* A model of the reinfors game-tree evaluation engine: the tic-tac-toe    *)
(* BoardState, the EndStateEvaluator with its `visited` cache, and the     *)
(* MinMax and Greedy strategies.                                           *)
(***************************************************************************)
EXTENDS Integers, Sequences, FiniteSets, TLC

VARIABLES
    rules,      \* the rules of the abstract game in play (the G the engine is generic over)
    session,    \* which Evaluator the session uses: "EndState" or "Table"
    player_state,      \* the current game state (GamePlayer.state)
    player_evaluator,  \* the EndStateEvaluator instance (GamePlayer.evaluator)
    players,    \* the strategy that moves for each player index
    result,     \* what play returned: None, or the final state and its outcome
    out         \* the latest call made on the engine and what it returned

vars == <<rules, session, player_state, player_evaluator, players, result, out>>

(***************************************************************************)
(* Bit operations on the u16 boards (src/games/tic_tac_toe.rs).            *)
(***************************************************************************)
\* A Board (u16 bitboard) is held as the set of its one-bits: bit k is square k.  Only
\* bits 0..8 are ever set, an Action being 2^k with k <= 8.  x & y is then the
\* intersection and x | y the union; U16 gives back the number for the arithmetic.
U16(b) ==
      (IF 0 \in b THEN 1 ELSE 0) + (IF 1 \in b THEN 2 ELSE 0) + (IF 2 \in b THEN 4 ELSE 0)
    + (IF 3 \in b THEN 8 ELSE 0) + (IF 4 \in b THEN 16 ELSE 0) + (IF 5 \in b THEN 32 ELSE 0)
    + (IF 6 \in b THEN 64 ELSE 0) + (IF 7 \in b THEN 128 ELSE 0) + (IF 8 \in b THEN 256 ELSE 0)

BitAnd(x, y) == x \cap y

BitOr(x, y) == x \cup y

\* static WINNING_POSITIONS: [Board; 8]
WINNING_POSITIONS ==
    << {6, 7, 8},    \* 0b111_000_000 top row
       {3, 4, 5},    \* 0b000_111_000 middle row
       {0, 1, 2},    \* 0b000_000_111 bottom row
       {2, 5, 8},    \* 0b100_100_100 left column
       {1, 4, 7},    \* 0b010_010_010 middle column
       {0, 3, 6},    \* 0b001_001_001 right column
       {0, 4, 8},    \* 0b100_010_001 upper left diagonal
       {2, 4, 6} >>  \* 0b001_010_100 upper right diagonal

\* pub static ALL_MOVES: [Action; 9] = Action(1), Action(2), ..., Action(256)
ALL_MOVES == << {0}, {1}, {2}, {3}, {4}, {5}, {6}, {7}, {8} >>

\* const DRAW: Board = 0b111_111_111
DRAW == 511

(***************************************************************************)
(* Player (src/game_state.rs).                                             *)
(***************************************************************************)
PlayerNew(n) == [n_players |-> n, current |-> 0]

player_index(p) == p.current

PlayerNext(p) == [n_players |-> p.n_players, current |-> (p.current + 1) % p.n_players]

\* wrapping_sub that stops at player 0
saturating_sub(p) == IF p.current = 0 THEN 0 ELSE p.current - 1

wrapping_sub(p) == IF p.current = 0 THEN p.n_players - 1 ELSE p.current - 1

PlayerLast(p) == [n_players |-> p.n_players, current |-> wrapping_sub(p)]

(***************************************************************************)
(* WinDrawOutcome and Option.                                              *)
(***************************************************************************)
Win(p) == [tag |-> "Win", player |-> p]

Draw == [tag |-> "Draw"]

None == [tag |-> "None"]

(***************************************************************************)
(* BoardState (src/games/tic_tac_toe.rs).  board is 1-indexed here:        *)
(* board[i + 1] is the Rust board[i].                                      *)
(***************************************************************************)
BoardDefault == [board |-> <<{}, {}>>, current_player |-> PlayerNew(2), player1_piece |-> "X"]

\* the line test of winner(): WINNING_POSITIONS.iter().any(|&pos| pos & board == pos)
HasLine(b) == \E i \in 1..8 : BitAnd(WINNING_POSITIONS[i], b) = WINNING_POSITIONS[i]

\* is_legal looking only at the squares of the player to move
BoardIsLegalOwnOnly(s, a) == BitAnd(a, s.board[player_index(s.current_player) + 1]) = {}

BoardIsLegal(s, a) == BitAnd(a, BitOr(s.board[1], s.board[2])) = {}

BoardApplyUnchecked(s, a) ==
    [board |-> [s.board EXCEPT ![player_index(s.current_player) + 1] = BitOr(@, a)],
     current_player |-> PlayerNext(s.current_player),
     player1_piece |-> s.player1_piece]

\* winner looking only at the lines of the player to move
BoardWinnerCurrentOnly(s) ==
    IF HasLine(s.board[player_index(s.current_player) + 1]) THEN Win(s.current_player)
    ELSE None

BoardWinner(s) ==
    LET last_player == PlayerLast(s.current_player) IN
    IF HasLine(s.board[player_index(last_player) + 1]) THEN Win(last_player)
    ELSE IF HasLine(s.board[player_index(s.current_player) + 1]) THEN Win(s.current_player)
    ELSE None

BoardIsDraw(s) == U16(s.board[1]) + U16(s.board[2]) = DRAW

BoardOutcome(s) ==
    IF BoardWinner(s) # None THEN BoardWinner(s)
    ELSE IF BoardIsDraw(s) THEN Draw
    ELSE None

(***************************************************************************)
(* GameResult and GameError (src/game_state.rs).                           *)
(***************************************************************************)
Ok(v) == [tag |-> "Ok", val |-> v]

Err(e) == [tag |-> "Err", err |-> e]

IllegalAction(s, a) == [kind |-> "IllegalAction", state |-> s, action |-> a]

GameOver(s, a) == [kind |-> "GameOver", state |-> s, action |-> a]

NoLegalActions(s) == [kind |-> "NoLegalActions", state |-> s]

StrategyFailure(s) == [kind |-> "StrategyFailure", state |-> s]

Arbitrary(msg) == [kind |-> "Arbitrary", msg |-> msg]

EvaluatorFailure(s, as) == [kind |-> "EvaluatorFailure", state |-> s, actions |-> as]

\* impl DynamicGameState for BoardState: apply
BoardApply(s, a) ==
    IF BoardIsLegal(s, a) THEN Ok(BoardApplyUnchecked(s, a))
    ELSE Err(IllegalAction(s, a))

(***************************************************************************)
(* An abstract game, standing for any implementation of the GameState      *)
(* trait.  Its states are the nodes of a tree, named by the actions that   *)
(* lead to them; only the nodes on the all-zero spine have children.       *)
(* rules[n] says what node n is: a terminal node with its outcome, a       *)
(* node still in play ("None": outcome() is None), or "Absent" when the    *)
(* action leading to n is not legal.  A session that recurses through the  *)
(* tree with the EndStateEvaluator plays with the first two actions only;  *)
(* a session that evaluates from a table plays with all of them, and has   *)
(* no use for terminal nodes.                                              *)
(***************************************************************************)
ToyWidth == 3

ToyDepth == 2

ToyActions == [i \in 1..ToyWidth |-> i - 1]

ToySpine(d) == [i \in 1..d |-> 0]

ToyNodes == {<< >>} \cup {Append(ToySpine(d), a) : d \in 0..(ToyDepth - 1), a \in 0..(ToyWidth - 1)}

ToyParent(n) == SubSeq(n, 1, Len(n) - 1)

ToyKinds(kind) ==
    IF kind = "Table" THEN {"None", "Absent"}
    ELSE {"Win0", "Win1", "Draw", "None", "Absent"}

ToyPlayable(kind) ==
    IF kind = "Table" THEN ToyNodes
    ELSE {n \in ToyNodes : \A i \in 1..Len(n) : n[i] \in {0, 1}}

\* the rule sets: the root is in play, and what cannot be reached is Absent
ToyRules(kind) ==
    {r \in {[n \in ToyNodes |-> IF n \in ToyPlayable(kind) THEN f[n] ELSE "Absent"] :
                f \in [ToyPlayable(kind) -> ToyKinds(kind)]} :
        /\ r[<< >>] = "None"
        /\ \A n \in ToyNodes : Len(n) >= 2 /\ r[ToyParent(n)] # "None" => r[n] = "Absent"}

IsToy(s) == "node" \in DOMAIN s

ToyState(n) == [node |-> n]

ToyCurrentPlayer(s) == [n_players |-> 2, current |-> Len(s.node) % 2]

ToyOutcome(s) ==
    CASE rules[s.node] = "Win0" -> Win([n_players |-> 2, current |-> 0])
      [] rules[s.node] = "Win1" -> Win([n_players |-> 2, current |-> 1])
      [] rules[s.node] = "Draw" -> Draw
      [] OTHER -> None

ToyApply(s, a) ==
    IF rules[s.node] # "None" THEN Err(GameOver(s, a))
    ELSE IF Append(s.node, a) \in ToyNodes /\ rules[Append(s.node, a)] # "Absent"
         THEN Ok(ToyState(Append(s.node, a)))
    ELSE Err(IllegalAction(s, a))

(***************************************************************************)
(* The DynamicGameState / GameState traits (src/game_state.rs),            *)
(* dispatched on the type of the state.                                    *)
(***************************************************************************)
Apply(s, a) == IF IsToy(s) THEN ToyApply(s, a) ELSE BoardApply(s, a)

Outcome(s) == IF IsToy(s) THEN ToyOutcome(s) ELSE BoardOutcome(s)

CurrentPlayer(s) == IF IsToy(s) THEN ToyCurrentPlayer(s) ELSE s.current_player

\* DynamicGameState::is_legal: the default (apply is Ok), BoardState overrides it
IsLegal(s, a) == IF IsToy(s) THEN Apply(s, a).tag = "Ok" ELSE BoardIsLegal(s, a)

\* GameState::actions
Actions(s) == IF IsToy(s) THEN ToyActions ELSE ALL_MOVES

\* GameState::legal_actions: actions().into_iter().filter(|a| self.is_legal(a))
LegalActions(s) == SelectSeq(Actions(s), LAMBDA a : IsLegal(s, a))

\* DynamicGameState::is_finished
IsFinished(s) == Outcome(s) # None

(***************************************************************************)
(* EndStateEvaluator (src/evaluator.rs).  `self` is the evaluator: its     *)
(* visited map, and two instruments: calls counts the invocations of       *)
(* evaluate, last is the (state, action) of the latest invocation.         *)
(***************************************************************************)
EndStateEvaluatorNew == [visited |-> << >>, calls |-> 0, last |-> << >>]

\* VisitedInsert caching a placeholder for the outcome
VisitedInsertPlaceholder(visited, new_state, outcome) == (new_state :> Draw) @@ visited

\* VisitedInsert keeping the new entry alone
VisitedInsertAlone(visited, new_state, outcome) == (new_state :> outcome)

VisitedInsert(visited, new_state, outcome) == (new_state :> outcome) @@ visited

RECURSIVE Evaluate(_, _, _), EvaluateLoop(_)

\* EvaluateLoop returning Draw at the first action that evaluates to Draw
EvaluateLoopFirstDraw(l) ==
    IF l.actions = << >>
    THEN [res |-> IF l.n_draws > 0 THEN Ok(Draw)
                  ELSE IF l.n_losses > 0 THEN Ok(Win(CurrentPlayer(l.state)))
                  ELSE Err(NoLegalActions(l.new_state)),
          self |-> l.self]
    ELSE LET r == Evaluate(l.self, l.new_state, Head(l.actions))
         IN  IF r.res.tag = "Err" THEN r
             ELSE IF r.res.val = Draw THEN r
             ELSE IF r.res.val.player = CurrentPlayer(l.new_state) THEN r
             ELSE EvaluateLoop([l EXCEPT !.self = r.self, !.actions = Tail(@),
                                         !.n_losses = @ + 1])

\* EvaluateLoop naming the player to move in new_state as the winner of a lost position
EvaluateLoopWrongWinner(l) ==
    IF l.actions = << >>
    THEN [res |-> IF l.n_draws > 0 THEN Ok(Draw)
                  ELSE IF l.n_losses > 0 THEN Ok(Win(CurrentPlayer(l.new_state)))
                  ELSE Err(NoLegalActions(l.new_state)),
          self |-> l.self]
    ELSE LET r == Evaluate(l.self, l.new_state, Head(l.actions))
         IN  IF r.res.tag = "Err" THEN r
             ELSE IF r.res.val = Draw
                  THEN EvaluateLoop([l EXCEPT !.self = r.self, !.actions = Tail(@),
                                              !.n_draws = @ + 1])
             ELSE IF r.res.val.player = CurrentPlayer(l.new_state) THEN r
             ELSE EvaluateLoop([l EXCEPT !.self = r.self, !.actions = Tail(@),
                                         !.n_losses = @ + 1])

\* EvaluateLoop counting an Err of a nested evaluation as a loss
EvaluateLoopSwallow(l) ==
    IF l.actions = << >>
    THEN [res |-> IF l.n_draws > 0 THEN Ok(Draw)
                  ELSE IF l.n_losses > 0 THEN Ok(Win(CurrentPlayer(l.state)))
                  ELSE Err(NoLegalActions(l.new_state)),
          self |-> l.self]
    ELSE LET r == Evaluate(l.self, l.new_state, Head(l.actions))
         IN  IF r.res.tag = "Ok" /\ r.res.val = Draw
             THEN EvaluateLoop([l EXCEPT !.self = r.self, !.actions = Tail(@),
                                         !.n_draws = @ + 1])
             ELSE IF r.res.tag = "Ok" /\ r.res.val.player = CurrentPlayer(l.new_state) THEN r
             ELSE EvaluateLoop([l EXCEPT !.self = r.self, !.actions = Tail(@),
                                         !.n_losses = @ + 1])

\* EvaluateLoop evaluating the remaining actions after a win for the player to move
EvaluateLoopScanAll(l) ==
    IF l.actions = << >>
    THEN [res |-> IF l.n_draws > 0 THEN Ok(Draw)
                  ELSE IF l.n_losses > 0 THEN Ok(Win(CurrentPlayer(l.state)))
                  ELSE Err(NoLegalActions(l.new_state)),
          self |-> l.self]
    ELSE LET r == Evaluate(l.self, l.new_state, Head(l.actions))
         IN  IF r.res.tag = "Err" THEN r
             ELSE IF r.res.val = Draw
                  THEN EvaluateLoop([l EXCEPT !.self = r.self, !.actions = Tail(@),
                                              !.n_draws = @ + 1])
             ELSE IF r.res.val.player = CurrentPlayer(l.new_state)
                  THEN [res |-> r.res,
                        self |-> EvaluateLoop([l EXCEPT !.self = r.self, !.actions = Tail(@),
                                                        !.n_losses = @ + 1]).self]
             ELSE EvaluateLoop([l EXCEPT !.self = r.self, !.actions = Tail(@),
                                         !.n_losses = @ + 1])

\* the `for action in actions` loop and the result after it.  l holds the locals of
\* evaluate: self, state, new_state, the actions left, n_draws, n_losses
EvaluateLoop(l) ==
    IF l.actions = << >>
    THEN [res |-> IF l.n_draws > 0 THEN Ok(Draw)
                  ELSE IF l.n_losses > 0 THEN Ok(Win(CurrentPlayer(l.state)))
                  ELSE Err(NoLegalActions(l.new_state)),
          self |-> l.self]
    ELSE LET r == Evaluate(l.self, l.new_state, Head(l.actions))
         IN  IF r.res.tag = "Err" THEN r
             ELSE IF r.res.val = Draw
                  THEN EvaluateLoop([l EXCEPT !.self = r.self, !.actions = Tail(@),
                                              !.n_draws = @ + 1])
             ELSE IF r.res.val.player = CurrentPlayer(l.new_state) THEN r
             ELSE EvaluateLoop([l EXCEPT !.self = r.self, !.actions = Tail(@),
                                         !.n_losses = @ + 1])

\* impl Evaluator<G> for EndStateEvaluator<G>: evaluate
Evaluate(self, state, action) ==
    LET me == [self EXCEPT !.calls = @ + 1, !.last = <<state, action>>]
        applied == Apply(state, action)
        new_state == applied.val
        terminal == Outcome(new_state)
        actions == LegalActions(new_state)
    IN  IF applied.tag = "Err" THEN [res |-> applied, self |-> me]
        ELSE IF new_state \in DOMAIN me.visited
             THEN [res |-> Ok(me.visited[new_state]), self |-> me]
        ELSE IF terminal # None
             THEN [res |-> Ok(terminal),
                   self |-> [me EXCEPT !.visited = VisitedInsert(@, new_state, terminal)]]
        ELSE IF actions = << >>
             THEN [res |-> Err(NoLegalActions(new_state)), self |-> me]
        ELSE EvaluateLoop([self |-> me, state |-> state, new_state |-> new_state,
                           actions |-> actions, n_draws |-> 0, n_losses |-> 0])

(***************************************************************************)
(* Strategies (src/strategy.rs).                                           *)
(***************************************************************************)
Some(x) == [tag |-> "Some", val |-> x]

RECURSIVE MinMaxLoop(_)

\* MinMaxLoop preferring the last losing action to the last Draw
MinMaxLoopLoserFirst(l) ==
    IF l.actions = << >>
    THEN [res |-> IF l.loser # None THEN Ok(l.loser.val)
                  ELSE IF l.draw # None THEN Ok(l.draw.val)
                  ELSE Err(StrategyFailure(l.state)),
          evaluator |-> l.evaluator, trace |-> l.trace]
    ELSE LET action == Head(l.actions)
             r == Evaluate(l.evaluator, l.state, action)
             seen == Append(l.trace, [action |-> action, eval |-> r.res])
         IN  IF r.res.tag = "Err"
             THEN [res |-> r.res, evaluator |-> r.self, trace |-> seen]
             ELSE IF r.res.val.tag = "Win" /\ r.res.val.player = CurrentPlayer(l.state)
                  THEN [res |-> Ok(action), evaluator |-> r.self, trace |-> seen]
             ELSE IF r.res.val = Draw
                  THEN MinMaxLoop([l EXCEPT !.evaluator = r.self, !.actions = Tail(@),
                                            !.draw = Some(action), !.trace = seen])
             ELSE MinMaxLoop([l EXCEPT !.evaluator = r.self, !.actions = Tail(@),
                                       !.loser = Some(action), !.trace = seen])

\* MinMaxLoop keeping the first action that evaluates to Draw
MinMaxLoopFirstDraw(l) ==
    IF l.actions = << >>
    THEN [res |-> IF l.draw # None THEN Ok(l.draw.val)
                  ELSE IF l.loser # None THEN Ok(l.loser.val)
                  ELSE Err(StrategyFailure(l.state)),
          evaluator |-> l.evaluator, trace |-> l.trace]
    ELSE LET action == Head(l.actions)
             r == Evaluate(l.evaluator, l.state, action)
             seen == Append(l.trace, [action |-> action, eval |-> r.res])
         IN  IF r.res.tag = "Err"
             THEN [res |-> r.res, evaluator |-> r.self, trace |-> seen]
             ELSE IF r.res.val.tag = "Win" /\ r.res.val.player = CurrentPlayer(l.state)
                  THEN [res |-> Ok(action), evaluator |-> r.self, trace |-> seen]
             ELSE IF r.res.val = Draw
                  THEN MinMaxLoop([l EXCEPT !.evaluator = r.self, !.actions = Tail(@),
                                            !.draw = IF @ = None THEN Some(action) ELSE @,
                                            !.trace = seen])
             ELSE MinMaxLoop([l EXCEPT !.evaluator = r.self, !.actions = Tail(@),
                                       !.loser = Some(action), !.trace = seen])

\* MinMaxLoop that does not remember an action evaluated as lost
MinMaxLoopNoLoser(l) ==
    IF l.actions = << >>
    THEN [res |-> IF l.draw # None THEN Ok(l.draw.val)
                  ELSE IF l.loser # None THEN Ok(l.loser.val)
                  ELSE Err(StrategyFailure(l.state)),
          evaluator |-> l.evaluator, trace |-> l.trace]
    ELSE LET action == Head(l.actions)
             r == Evaluate(l.evaluator, l.state, action)
             seen == Append(l.trace, [action |-> action, eval |-> r.res])
         IN  IF r.res.tag = "Err"
             THEN [res |-> r.res, evaluator |-> r.self, trace |-> seen]
             ELSE IF r.res.val.tag = "Win" /\ r.res.val.player = CurrentPlayer(l.state)
                  THEN [res |-> Ok(action), evaluator |-> r.self, trace |-> seen]
             ELSE IF r.res.val = Draw
                  THEN MinMaxLoop([l EXCEPT !.evaluator = r.self, !.actions = Tail(@),
                                            !.draw = Some(action), !.trace = seen])
             ELSE MinMaxLoop([l EXCEPT !.evaluator = r.self, !.actions = Tail(@),
                                       !.trace = seen])

\* the `for action in actions` loop of MinMax::best_action and what follows it.  l holds
\* the locals: evaluator, state, the actions left, draw, loser; trace lists the actions
\* handed to evaluator.evaluate so far
MinMaxLoop(l) ==
    IF l.actions = << >>
    THEN [res |-> IF l.draw # None THEN Ok(l.draw.val)
                  ELSE IF l.loser # None THEN Ok(l.loser.val)
                  ELSE Err(StrategyFailure(l.state)),
          evaluator |-> l.evaluator, trace |-> l.trace]
    ELSE LET action == Head(l.actions)
             r == Evaluate(l.evaluator, l.state, action)
             seen == Append(l.trace, [action |-> action, eval |-> r.res])
         IN  IF r.res.tag = "Err"
             THEN [res |-> r.res, evaluator |-> r.self, trace |-> seen]
             ELSE IF r.res.val.tag = "Win" /\ r.res.val.player = CurrentPlayer(l.state)
                  THEN [res |-> Ok(action), evaluator |-> r.self, trace |-> seen]
             ELSE IF r.res.val = Draw
                  THEN MinMaxLoop([l EXCEPT !.evaluator = r.self, !.actions = Tail(@),
                                            !.draw = Some(action), !.trace = seen])
             ELSE MinMaxLoop([l EXCEPT !.evaluator = r.self, !.actions = Tail(@),
                                       !.loser = Some(action), !.trace = seen])

\* MinMaxBestAction without the peek for a first legal action
MinMaxBestActionNoPeek(state, evaluator) ==
    MinMaxLoop([evaluator |-> evaluator, state |-> state, actions |-> LegalActions(state),
                draw |-> None, loser |-> None, trace |-> << >>])

\* impl Strategy<G, EndStateEvaluator<G>> for MinMax: best_action
MinMaxBestAction(state, evaluator) ==
    IF LegalActions(state) = << >>
    THEN [res |-> Err(NoLegalActions(state)), evaluator |-> evaluator, trace |-> << >>]
    ELSE MinMaxLoop([evaluator |-> evaluator, state |-> state, actions |-> LegalActions(state),
                     draw |-> None, loser |-> None, trace |-> << >>])

\* An Evaluation with PartialOrd, as f64 has it: a number, or NaN
Num(v) == [nan |-> FALSE, val |-> v]

NaN == [nan |-> TRUE, val |-> 0]

\* PartialOrd::partial_cmp
PartialCmp(x, y) ==
    IF x.nan \/ y.nan THEN None
    ELSE IF x.val < y.val THEN Some("Less")
    ELSE IF x.val = y.val THEN Some("Equal")
    ELSE Some("Greater")

\* todo!()
Panic(msg) == [tag |-> "Panic", msg |-> msg]

\* an Evaluator given by a table: evaluate(state, action) returns table[action]
TableEvaluate(table, state, action) == table[action]

RECURSIVE GreedyLoop(_)

\* GreedyLoop keeping its best action when the new evaluation cannot be compared
GreedyLoopKeep(l) ==
    IF l.actions = << >>
    THEN [res |-> Panic("not yet implemented"), trace |-> l.trace]
    ELSE LET action == Head(l.actions)
             eval == TableEvaluate(l.table, l.state, action)
             seen == Append(l.trace, [action |-> action, eval |-> eval])
             ordering == PartialCmp(l.accum[2], eval.val)
         IN  IF eval.tag = "Err" THEN [res |-> eval, trace |-> seen]
             ELSE IF ordering = Some("Less")
                  THEN GreedyLoop([l EXCEPT !.actions = Tail(@), !.accum = <<action, eval.val>>,
                                            !.trace = seen])
             ELSE GreedyLoop([l EXCEPT !.actions = Tail(@), !.trace = seen])

\* the `for action in actions` loop of GreedyStrategy::best_action and what follows it.
\* l holds the locals: state, the evaluator's table, the actions left, accum
GreedyLoop(l) ==
    IF l.actions = << >>
    THEN [res |-> Panic("not yet implemented"), trace |-> l.trace]
    ELSE LET action == Head(l.actions)
             eval == TableEvaluate(l.table, l.state, action)
             seen == Append(l.trace, [action |-> action, eval |-> eval])
             ordering == PartialCmp(l.accum[2], eval.val)
         IN  IF eval.tag = "Err" THEN [res |-> eval, trace |-> seen]
             ELSE IF ordering = None
                  THEN [res |-> Err(EvaluatorFailure(l.state, <<l.accum[1], action>>)),
                        trace |-> seen]
             ELSE IF ordering = Some("Less")
                  THEN GreedyLoop([l EXCEPT !.actions = Tail(@), !.accum = <<action, eval.val>>,
                                            !.trace = seen])
             ELSE GreedyLoop([l EXCEPT !.actions = Tail(@), !.trace = seen])

\* impl Strategy<G, E> for GreedyStrategy: best_action
GreedyBestAction(state, table) ==
    LET actions == LegalActions(state)
        eval == TableEvaluate(table, state, Head(actions))
        seen == <<[action |-> Head(actions), eval |-> eval]>>
    IN  IF actions = << >> THEN [res |-> Err(NoLegalActions(state)), trace |-> << >>]
        ELSE IF eval.tag = "Err" THEN [res |-> eval, trace |-> seen]
        ELSE GreedyLoop([state |-> state, table |-> table, actions |-> Tail(actions),
                         accum |-> <<Head(actions), eval.val>>, trace |-> seen])

(***************************************************************************)
(* The engine on the abstract game: any sequence of calls of evaluate and  *)
(* of MinMax::best_action on one EndStateEvaluator, or of                  *)
(* GreedyStrategy::best_action with a table evaluator.                     *)
(***************************************************************************)
\* the evaluator as the next call finds it: its cache, the instruments reset
Instance(e) == [e EXCEPT !.calls = 0, !.last = << >>]

\* the states the engine is called on: those that the rules in force let exist,
\* among the nodes that have children in the tree
ToyStates == {ToyState(n) : n \in {ToySpine(d) : d \in {e \in 0..(ToyDepth - 1) : rules[ToySpine(e)] # "Absent"}}}

ToyActionSet == {ToyActions[i] : i \in 1..ToyWidth}

\* what a table evaluator may return for an action
TableResults == {Ok(Num(0)), Ok(Num(1)), Ok(NaN), Err(Arbitrary("evaluator"))}

Init ==
    /\ session \in {"EndState", "Table"}
    /\ rules \in ToyRules(session)
    /\ player_state = ToyState(<< >>)
    /\ player_evaluator = EndStateEvaluatorNew
    /\ players = << >>
    /\ result = None
    /\ out = [op |-> "none"]

\* evaluator.evaluate(&s, &a)
CallEvaluate(s, a) ==
    /\ session = "EndState"
    /\ \E r \in {Evaluate(Instance(player_evaluator), s, a)} :
          /\ player_evaluator' = Instance(r.self)
          /\ out' = [op |-> "evaluate", state |-> s, action |-> a, res |-> r.res,
                     nested |-> r.self.calls - 1, last |-> r.self.last,
                     hit |-> (Apply(s, a).tag = "Ok"
                              /\ Apply(s, a).val \in DOMAIN player_evaluator.visited),
                     again |-> (/\ out.op = "evaluate" /\ out.res.tag = "Ok"
                                /\ out.state = s /\ out.action = a)]
    /\ UNCHANGED <<rules, session, player_state, players, result>>

\* MinMax.best_action(&s, &mut evaluator)
CallMinMax(s) ==
    /\ session = "EndState"
    /\ \E r \in {MinMaxBestAction(s, Instance(player_evaluator))} :
          /\ player_evaluator' = Instance(r.evaluator)
          /\ out' = [op |-> "minmax", state |-> s, res |-> r.res, trace |-> r.trace,
                     calls |-> r.evaluator.calls]
    /\ UNCHANGED <<rules, session, player_state, players, result>>

\* GreedyStrategy.best_action(&s, &mut evaluator), the evaluator answering from table
CallGreedy(s, table) ==
    /\ session = "Table"
    /\ out.op = "none"
    /\ \E r \in {GreedyBestAction(s, table)} :
          out' = [op |-> "greedy", state |-> s, table |-> table, res |-> r.res,
                  trace |-> r.trace]
    /\ UNCHANGED <<rules, session, player_state, player_evaluator, players, result>>

\* the caller of GreedyStrategy.best_action takes what it returned
Return ==
    /\ out.op = "greedy"
    /\ out' = [op |-> "none"]
    /\ UNCHANGED <<rules, session, player_state, player_evaluator, players, result>>

Next ==
    \/ \E s \in ToyStates, a \in ToyActionSet : CallEvaluate(s, a)
    \/ \E s \in ToyStates : CallMinMax(s)
    \/ \E s \in ToyStates, table \in [ToyActionSet -> TableResults] : CallGreedy(s, table)
    \/ Return

Spec == Init /\ [][Next]_vars

(***************************************************************************)
(* What the calls are held against.  An evaluation is looked up here with  *)
(* an evaluator of its own, whatever the session's evaluator has cached.   *)
(***************************************************************************)
Fresh(s, a) == Evaluate(EndStateEvaluatorNew, s, a)

Min(S) == CHOOSE x \in S : \A y \in S : x <= y

Max(S) == CHOOSE x \in S : \A y \in S : y <= x

\* the indices at which a scan of the evaluations evals for player me stops early
Stops(evals, me) == {i \in DOMAIN evals : evals[i].tag = "Err" \/ evals[i] = Ok(Win(me))}

RECURSIVE SumCalls(_, _)
SumCalls(runs, k) == IF k = 0 THEN 0 ELSE runs[k].self.calls + SumCalls(runs, k - 1)

\* the index GreedyStrategy keeps over the first k of comparable evaluations evals
Kept(evals, k) ==
    CHOOSE j \in 1..k : /\ \A i \in 1..k : evals[i].val.val <= evals[j].val.val
                        /\ \A i \in 1..(j - 1) : evals[i].val.val < evals[j].val.val

\* evaluation k is the first that cannot be compared with the one kept
FirstClash(evals, k) ==
    /\ k \in 2..Len(evals)
    /\ \A i \in 1..k : evals[i].tag = "Ok"
    /\ k > 2 => \A i \in 1..(k - 1) : ~evals[i].val.nan
    /\ PartialCmp(evals[Kept(evals, k - 1)].val, evals[k].val) = None

\* C4: a second evaluate(s, a) on the same instance, right after the first
\* has returned, makes no nested evaluate call
RepeatDoesNoNewWork ==
    (out.op = "evaluate" /\ out.again) => out.nested = 0

\* C5: whatever the evaluator has cached in earlier calls, evaluate(s, a)
\* returns what a fresh evaluator returns for (s, a)
CacheTransparent ==
    out.op = "evaluate" => out.res = Fresh(out.state, out.action).res

CacheHitSeen ==
    out.op = "evaluate" /\ out.hit /\ out.res.tag = "Ok" /\ out.res.val # Draw

\* C6: evaluate reports a state reached that has no outcome and no legal
\* action as NoLegalActions of that state, and both strategies report a
\* state without legal actions as NoLegalActions of that state
NoLegalActionsReported ==
    /\ out.op = "evaluate" =>
          LET applied == Apply(out.state, out.action)
          IN  (applied.tag = "Ok" /\ Outcome(applied.val) = None
                  /\ LegalActions(applied.val) = << >>)
              => out.res = [tag |-> "Err", err |-> [kind |-> "NoLegalActions", state |-> applied.val]]
    /\ out.op \in {"minmax", "greedy"} =>
          (LegalActions(out.state) = << >>
              => out.res = [tag |-> "Err", err |-> [kind |-> "NoLegalActions", state |-> out.state]])

NoLegalActionsSeen ==
    /\ out.op = "evaluate"
    /\ Apply(out.state, out.action).tag = "Ok"
    /\ Outcome(Apply(out.state, out.action).val) = None
    /\ LegalActions(Apply(out.state, out.action).val) = << >>
    /\ out.res.tag = "Err"

\* C7: with a legal action and evaluations that all succeed and are all
\* comparable, GreedyStrategy evaluates every legal action once and returns
\* Ok of a legal action whose evaluation none exceeds
GreedyReturnsBest ==
    out.op = "greedy" =>
        LET acts == LegalActions(out.state)
            evals == [i \in DOMAIN acts |-> out.table[acts[i]]]
        IN  (acts # << >> /\ \A i \in DOMAIN acts : evals[i].tag = "Ok" /\ ~evals[i].val.nan)
            => /\ out.res.tag = "Ok"
               /\ \E j \in DOMAIN acts :
                     /\ out.res.val = acts[j]
                     /\ \A i \in DOMAIN acts : evals[i].val.val <= evals[j].val.val
               /\ [i \in DOMAIN out.trace |-> out.trace[i].action] = acts

\* C8: MinMax returns the first action that evaluates to a win for the
\* state's current player and evaluates none after it; without such an
\* action, the last one that evaluates to Draw; without that either, the
\* last one that evaluates to a win for another player
MinMaxScan ==
    out.op = "minmax" =>
        LET acts == LegalActions(out.state)
            me == CurrentPlayer(out.state)
            evals == [i \in DOMAIN acts |-> Fresh(out.state, acts[i]).res]
            stops == Stops(evals, me)
            draws == {i \in DOMAIN acts : evals[i] = Ok(Draw)}
        IN  /\ (stops # {} /\ evals[Min(stops)].tag = "Ok")
                => /\ out.res = Ok(acts[Min(stops)])
                   /\ [i \in DOMAIN out.trace |-> out.trace[i].action] = SubSeq(acts, 1, Min(stops))
            /\ (stops = {} /\ draws # {}) => out.res = Ok(acts[Max(draws)])
            /\ (stops = {} /\ draws = {} /\ acts # << >>) => out.res = Ok(acts[Len(acts)])

MinMaxWinSeen ==
    /\ out.op = "minmax" /\ out.res.tag = "Ok"
    /\ Len(out.trace) < Len(LegalActions(out.state))

\* C9: when an evaluation cannot be compared with the best one kept so far,
\* GreedyStrategy returns EvaluatorFailure of the state and of the kept and
\* the new action, and evaluates no further action
GreedyClash ==
    out.op = "greedy" =>
        LET acts == LegalActions(out.state)
            evals == [i \in DOMAIN acts |-> out.table[acts[i]]]
        IN  \A k \in DOMAIN acts :
                FirstClash(evals, k)
                => /\ out.res = [tag |-> "Err",
                                 err |-> [kind |-> "EvaluatorFailure", state |-> out.state,
                                          actions |-> <<acts[Kept(evals, k - 1)], acts[k]>>]]
                   /\ [i \in DOMAIN out.trace |-> out.trace[i].action] = SubSeq(acts, 1, k)

GreedyClashSeen ==
    /\ out.op = "greedy" /\ out.res.tag = "Err" /\ out.res.err.kind = "EvaluatorFailure"
    /\ Len(out.trace) < Len(LegalActions(out.state))

\* C10: the first Err of a nested evaluation is what evaluate, MinMax and
\* GreedyStrategy return, and no action after it is evaluated
ErrorsPropagate ==
    /\ out.op = "evaluate" =>
          LET applied == Apply(out.state, out.action)
              acts == LegalActions(applied.val)
              runs == [i \in DOMAIN acts |-> Fresh(applied.val, acts[i])]
              stops == Stops([i \in DOMAIN acts |-> runs[i].res], CurrentPlayer(applied.val))
          IN  (/\ applied.tag = "Ok" /\ Outcome(applied.val) = None
               /\ stops # {} /\ runs[Min(stops)].res.tag = "Err")
              => /\ out.res = runs[Min(stops)].res
                 /\ out.nested = SumCalls(runs, Min(stops))
    /\ out.op = "minmax" =>
          LET acts == LegalActions(out.state)
              evals == [i \in DOMAIN acts |-> Fresh(out.state, acts[i]).res]
              stops == Stops(evals, CurrentPlayer(out.state))
          IN  (stops # {} /\ evals[Min(stops)].tag = "Err")
              => /\ out.res = evals[Min(stops)]
                 /\ [i \in DOMAIN out.trace |-> out.trace[i].action] = SubSeq(acts, 1, Min(stops))
    /\ out.op = "greedy" =>
          LET acts == LegalActions(out.state)
              evals == [i \in DOMAIN acts |-> out.table[acts[i]]]
              errs == {i \in DOMAIN acts : evals[i].tag = "Err"}
          IN  (errs # {} /\ \A k \in 1..(Min(errs) - 1) : ~FirstClash(evals, k))
              => /\ out.res = evals[Min(errs)]
                 /\ [i \in DOMAIN out.trace |-> out.trace[i].action] = SubSeq(acts, 1, Min(errs))

ErrorCutsScanSeen ==
    /\ out.op = "evaluate" /\ out.res.tag = "Err" /\ out.nested = 1
    /\ Apply(out.state, out.action).tag = "Ok"
    /\ Len(LegalActions(Apply(out.state, out.action).val)) >= 2

(***************************************************************************)
(* Tic-tac-toe positions: the board is taken from the empty board through  *)
(* legal moves until the game is over, and at any position still in play   *)
(* a fresh EndStateEvaluator is asked to evaluate a legal action.          *)
(***************************************************************************)
BoardLegalMoves(s) == {ALL_MOVES[i] : i \in {j \in 1..9 : BoardIsLegal(s, ALL_MOVES[j])}}

EvaluateInit ==
    /\ session = "Evaluate"
    /\ rules = << >>
    /\ player_state = BoardDefault
    /\ player_evaluator = EndStateEvaluatorNew
    /\ players = << >>
    /\ result = None
    /\ out = [op |-> "none"]

\* state.apply(&a) on the position, for a legal a
Move(a) ==
    /\ Outcome(player_state) = None
    /\ Apply(player_state, a).tag = "Ok"
    /\ player_state' = Apply(player_state, a).val
    /\ out' = [op |-> "none"]
    /\ UNCHANGED <<rules, session, player_evaluator, players, result>>

\* EndStateEvaluator::new().evaluate(&state, &a) on the position, for a legal a
EvaluateFresh(a) ==
    /\ Outcome(player_state) = None
    /\ out.op = "none"
    /\ \E r \in {Evaluate(EndStateEvaluatorNew, player_state, a)} :
          out' = [op |-> "evaluate", state |-> player_state, action |-> a, res |-> r.res,
                  nested |-> r.self.calls - 1]
    /\ UNCHANGED <<rules, session, player_state, player_evaluator, players, result>>

EvaluateNext ==
    \/ \E a \in BoardLegalMoves(player_state) : Move(a)
    \/ \E a \in BoardLegalMoves(player_state) : EvaluateFresh(a)

EvaluateSpec == EvaluateInit /\ [][EvaluateNext]_vars

\* backward induction: player p can force a win from position s
RECURSIVE CanForceWin(_, _)
CanForceWin(p, s) ==
    IF BoardOutcome(s) # None THEN BoardOutcome(s) = Win(p)
    ELSE IF s.current_player = p
         THEN \E a \in BoardLegalMoves(s) : CanForceWin(p, BoardApplyUnchecked(s, a))
    ELSE \A a \in BoardLegalMoves(s) : CanForceWin(p, BoardApplyUnchecked(s, a))

BothPlayers == {[n_players |-> 2, current |-> i] : i \in {0, 1}}

\* C1: at every position reached by legal moves and still in play, evaluate
\* of a legal action returns Win(p) exactly when p can force a win from the
\* position the action leads to, and Draw exactly when no player can
EvaluateIsBackwardInduction ==
    out.op = "evaluate" =>
        LET reached == BoardApplyUnchecked(out.state, out.action)
        IN  /\ out.res.tag = "Ok"
            /\ \A p \in BothPlayers : (out.res.val = Win(p)) <=> CanForceWin(p, reached)
            /\ (out.res.val = Draw) <=> \A p \in BothPlayers : ~CanForceWin(p, reached)

ForcedWinSeen ==
    /\ out.op = "evaluate" /\ out.res.tag = "Ok" /\ out.res.val.tag = "Win"
    /\ out.nested > 0

(***************************************************************************)
(* GamePlayer (src/game_player.rs) on tic-tac-toe with MinMax and one      *)
(* EndStateEvaluator.  players says who moves for each player index: the   *)
(* strategy for both in play(), or the user for the player who starts or   *)
(* for the other one in play_interactive(player_starts).                   *)
(***************************************************************************)
Ongoing(new_state) == [tag |-> "Ongoing", state |-> new_state]

Finished(new_state, outcome) == [tag |-> "Finished", state |-> new_state, outcome |-> outcome]

\* GameState::apply of the new trait: the next state, or the final state and its outcome
PlayApply(s, a) ==
    LET new_state == BoardApplyUnchecked(s, a)
    IN  IF BoardOutcome(new_state) # None THEN Finished(new_state, BoardOutcome(new_state))
        ELSE Ongoing(new_state)

\* strategy.choose(&state, &mut evaluator)
Choose(s, evaluator) == MinMaxBestAction(s, evaluator)

PlayModes == {<<"Strategy", "Strategy">>, <<"User", "Strategy">>, <<"Strategy", "User">>}

Mover == players[player_index(player_state.current_player) + 1]

PlayInit ==
    /\ session = "Play"
    /\ rules = << >>
    /\ player_state = BoardDefault
    /\ player_evaluator = EndStateEvaluatorNew
    /\ players \in PlayModes
    /\ result = None
    /\ out = [op |-> "none"]

\* one turn of the loop: the strategy chooses, the action is applied
PlayStrategy ==
    /\ result = None
    /\ Mover = "Strategy"
    /\ \E chosen \in {Choose(player_state, Instance(player_evaluator))} :
          /\ player_evaluator' = Instance(chosen.evaluator)
          /\ IF chosen.res.tag # "Ok"
             THEN result' = Panic("choose") /\ UNCHANGED player_state
             ELSE LET applied == PlayApply(player_state, chosen.res.val)
                  IN  IF applied.tag = "Ongoing"
                      THEN player_state' = applied.state /\ UNCHANGED result
                      ELSE result' = applied /\ UNCHANGED player_state
    /\ UNCHANGED <<rules, session, players, out>>

\* one turn of play_interactive: get_user_input returns a legal action, and it is applied
PlayUser(a) ==
    /\ result = None
    /\ Mover = "User"
    /\ BoardIsLegal(player_state, a)
    /\ LET applied == PlayApply(player_state, a)
       IN  IF applied.tag = "Ongoing"
           THEN player_state' = applied.state /\ UNCHANGED result
           ELSE result' = applied /\ UNCHANGED player_state
    /\ UNCHANGED <<rules, session, player_evaluator, players, out>>

PlayNext ==
    \/ PlayStrategy
    \/ \E i \in 1..9 : PlayUser(ALL_MOVES[i])

PlaySpec == PlayInit /\ [][PlayNext]_vars

\* a turn of the loop: a legal action is applied to the state
Turn ==
    /\ result = None
    /\ \E i \in 1..9 :
          /\ BoardIsLegal(player_state, ALL_MOVES[i])
          /\ LET applied == PlayApply(player_state, ALL_MOVES[i])
             IN  IF applied.tag = "Ongoing"
                 THEN player_state' = applied.state /\ UNCHANGED result
                 ELSE result' = applied /\ UNCHANGED player_state
    /\ UNCHANGED <<rules, session, players, out>>

\* what a turn changes of the game
game == <<player_state, result>>

\* play and play_interactive loop without suspending until apply returns Finished
FairPlaySpec == PlaySpec /\ WF_game(Turn)

\* C2: with MinMax on one side and any legal moves on the other, no game
\* ends in a win for the side that is not MinMax
MinMaxNeverLoses ==
    result.tag = "Finished" =>
        \A p \in BothPlayers : players[player_index(p) + 1] = "User" => result.outcome # Win(p)

MinMaxBeatsUserSeen ==
    /\ result.tag = "Finished"
    /\ \E p \in BothPlayers : players[player_index(p) + 1] = "Strategy" /\ result.outcome = Win(p)
    /\ "User" \in {players[1], players[2]}

\* C3: with MinMax on both sides, the game comes to an end, and the end is a Draw
MinMaxSelfPlayDraws ==
    (players = <<"Strategy", "Strategy">>)
        => <>(result.tag = "Finished" /\ result.outcome = Draw)

SelfPlayDrawSeen ==
    players = <<"Strategy", "Strategy">> /\ result.tag = "Finished" /\ result.outcome = Draw

(***************************************************************************)
(* BoardState (src/games/tic_tac_toe.rs) under any sequence of calls of    *)
(* apply and apply_mut with the actions of ALL_MOVES, whether the game is  *)
(* over or not, and of evaluate on a state whose game is over.             *)
(***************************************************************************)
Unit == << >>

\* Player::next_mut
PlayerNextMut(p) == [p EXCEPT !.current = (p.current + 1) % p.n_players]

\* BoardState::apply_mut_unchecked
BoardApplyMutUnchecked(s, a) ==
    [s EXCEPT !.board[player_index(s.current_player) + 1] = BitOr(@, a),
              !.current_player = PlayerNextMut(@)]

\* impl DynamicGameState for BoardState: apply_mut.  self is the state after the call
BoardApplyMut(s, a) ==
    IF BoardIsLegal(s, a) THEN [res |-> Ok(Unit), self |-> BoardApplyMutUnchecked(s, a)]
    ELSE [res |-> Err(IllegalAction(s, a)), self |-> s]

BoardInit ==
    /\ session = "Board"
    /\ rules = << >>
    /\ player_state = BoardDefault
    /\ player_evaluator = EndStateEvaluatorNew
    /\ players = << >>
    /\ result = None
    /\ out = [op |-> "none"]

\* state.apply(&a)
CallApply(a) ==
    /\ out' = [op |-> "apply", state |-> player_state, action |-> a,
               res |-> BoardApply(player_state, a)]
    /\ UNCHANGED <<rules, session, player_state, player_evaluator, players, result>>

\* state.apply_mut(&a)
CallApplyMut(a) ==
    /\ \E r \in {BoardApplyMut(player_state, a)} :
          /\ player_state' = r.self
          /\ out' = [op |-> "apply_mut", state |-> player_state, action |-> a, res |-> r.res]
    /\ UNCHANGED <<rules, session, player_evaluator, players, result>>

\* EndStateEvaluator::new().evaluate(&state, &a) on a state whose game is over
EvaluateFinished(a) ==
    /\ IsFinished(player_state)
    /\ \E r \in {Evaluate(EndStateEvaluatorNew, player_state, a)} :
          out' = [op |-> "evaluate", state |-> player_state, action |-> a, res |-> r.res]
    /\ UNCHANGED <<rules, session, player_state, player_evaluator, players, result>>

BoardNext ==
    \/ \E i \in 1..9 : CallApply(ALL_MOVES[i])
    \/ \E i \in 1..9 : CallApplyMut(ALL_MOVES[i])
    \/ \E i \in 1..9 : EvaluateFinished(ALL_MOVES[i])

BoardSpec == BoardInit /\ [][BoardNext]_vars

\* the square of a one-square action
Square(a) == CHOOSE k \in a : TRUE

\* the rows, columns and diagonals of the board, by square number
Lines ==
    {{3 * r, 3 * r + 1, 3 * r + 2} : r \in 0..2} \cup {{c, c + 3, c + 6} : c \in 0..2}
        \cup {{0, 4, 8}, {2, 4, 6}}

Completed(squares) == \E line \in Lines : line \subseteq squares

\* C11: apply on a state that has an outcome, and evaluate on such a
\* state, return the GameOver error
GameOverReported ==
    (out.op \in {"apply", "evaluate"} /\ BoardOutcome(out.state) # None)
        => out.res.tag = "Err" /\ out.res.err.kind = "GameOver"

WinAtCompletingPly ==
    (out.op = "apply_mut" /\ out.res.tag = "Ok") =>
        LET mover == out.state.current_player.current
        IN  (~Completed(out.state.board[1]) /\ ~Completed(out.state.board[2]))
            => /\ BoardOutcome(out.state) = None
               /\ Completed(player_state.board[mover + 1])
                     => BoardOutcome(player_state) = [tag |-> "Win",
                                                      player |-> [n_players |-> 2, current |-> mover]]
               /\ (~Completed(player_state.board[mover + 1])
                      /\ player_state.board[1] \cup player_state.board[2] # 0..8)
                     => BoardOutcome(player_state) = None

CompletingPlySeen ==
    /\ out.op = "apply_mut" /\ out.res.tag = "Ok"
    /\ ~Completed(out.state.board[1]) /\ ~Completed(out.state.board[2])
    /\ out.state.current_player.current = 1
    /\ {2, 4, 6} \subseteq player_state.board[2]

(***************************************************************************)
(* RandomEvaluator (src/evaluator.rs): a linear congruential generator on  *)
(* a u64.  A u64 is held as its four 16-bit limbs, least significant       *)
(* first, so that no intermediate value leaves the range of the model      *)
(* checker's integers; the factor of a multiplication is below 2^31.       *)
(***************************************************************************)
A == 1664525

C == 1013904223

LIMB == 65536

MaxCalls == 3

\* a constant below 2^31 as a u64
U64(n) == <<n % LIMB, n \div LIMB, 0, 0>>

\* the four limbs of the column sums cols, the carry out of the last limb dropped
Wrap(cols) ==
    LET s1 == cols[1]
        s2 == cols[2] + (s1 \div LIMB)
        s3 == cols[3] + (s2 \div LIMB)
        s4 == cols[4] + (s3 \div LIMB)
    IN  <<s1 % LIMB, s2 % LIMB, s3 % LIMB, s4 % LIMB>>

\* u64::wrapping_mul restricted to 32 bits
WrappingMul32(x, y) ==
    Wrap(<<x[1] * y[1], x[1] * y[2] + x[2] * y[1], 0, 0>>)

\* u64::wrapping_mul
WrappingMul(x, y) ==
    Wrap(<<x[1] * y[1],
           x[1] * y[2] + x[2] * y[1],
           x[1] * y[3] + x[2] * y[2] + x[3] * y[1],
           x[1] * y[4] + x[2] * y[3] + x[3] * y[2] + x[4] * y[1]>>)

\* u64::wrapping_add
WrappingAdd(x, y) == Wrap([i \in 1..4 |-> x[i] + y[i]])

RandomEvaluatorNew(seed) == [rng_state |-> seed]

\* impl Evaluator<G> for RandomEvaluator: evaluate
RandomEvaluate(self, state, action) ==
    LET rng_state == WrappingAdd(WrappingMul(self.rng_state, U64(A)), U64(C))
    IN  [res |-> Ok(rng_state), self |-> [self EXCEPT !.rng_state = rng_state]]

Seeds == [1..4 -> {0, 1, LIMB - 1}]

RandomInit ==
    /\ session = "Random"
    /\ rules = << >>
    /\ player_state = BoardDefault
    /\ \E seed \in Seeds :
          /\ player_evaluator = RandomEvaluatorNew(seed)
          /\ out = [op |-> "new", seed |-> seed, calls |-> 0]
    /\ players = << >>
    /\ result = None

\* evaluator.evaluate(&s, &a)
CallRandom(s, a) ==
    /\ out.calls < MaxCalls
    /\ \E r \in {RandomEvaluate(player_evaluator, s, a)} :
          /\ player_evaluator' = r.self
          /\ out' = [op |-> "random", seed |-> out.seed, calls |-> out.calls + 1,
                     state |-> s, action |-> a, res |-> r.res]
    /\ UNCHANGED <<rules, session, player_state, players, result>>

RandomNext ==
    \E s \in {BoardDefault, BoardApplyUnchecked(BoardDefault, ALL_MOVES[5])},
       a \in {ALL_MOVES[1], ALL_MOVES[9]} : CallRandom(s, a)

RandomSpec == RandomInit /\ [][RandomNext]_vars

\* a u64 as its eight bytes, least significant first
Bytes(x) == [i \in 0..7 |-> IF i % 2 = 0 THEN x[(i \div 2) + 1] % 256
                            ELSE x[(i \div 2) + 1] \div 256]

RECURSIVE Pow256(_)
Pow256(i) == IF i = 0 THEN 1 ELSE 256 * Pow256(i - 1)

\* byte i of a number below 2^31
ByteOf(n, i) == IF i > 3 THEN 0 ELSE (n \div Pow256(i)) % 256

\* the sum of column i of the long multiplication b * 1664525, plus byte i of 1013904223
RECURSIVE Column(_, _, _)
Column(b, i, j) ==
    IF j > i THEN ByteOf(1013904223, i)
    ELSE b[j] * ByteOf(1664525, i - j) + Column(b, i, j + 1)

\* the carry into column i
RECURSIVE CarryIn(_, _)
CarryIn(b, i) == IF i = 0 THEN 0 ELSE (Column(b, i - 1, 0) + CarryIn(b, i - 1)) \div 256

\* f(x) = (x * 1664525 + 1013904223) mod 2^64, on bytes
Lcg(b) == [i \in 0..7 |-> (Column(b, i, 0) + CarryIn(b, i)) % 256]

RECURSIVE LcgIterate(_, _)
LcgIterate(k, b) == IF k = 0 THEN b ELSE Lcg(LcgIterate(k - 1, b))

\* C13: the k-th evaluate of a RandomEvaluator built with seed s returns
\* f^k(s) for f(x) = (x * 1664525 + 1013904223) mod 2^64, whatever state and
\* action it is given, and stores it as the seed
RandomIsLcg ==
    out.op = "random" =>
        /\ out.res.tag = "Ok"
        /\ Bytes(out.res.val) = LcgIterate(out.calls, Bytes(out.seed))
        /\ player_evaluator.rng_state = out.res.val

RandomWrapSeen ==
    /\ out.op = "random" /\ out.calls = 2
    /\ out.seed = <<1, 0, 0, 0>>
    /\ out.res.val[3] # 0

(***************************************************************************)
(* TwoPlayer (src/game_state/player.rs).                                   *)
(***************************************************************************)
TwoPlayerDefault == [player0 |-> TRUE]

TwoPlayerNext(p) == [player0 |-> ~p.player0]

TwoPlayerLast(p) == TwoPlayerNext(p)

\* (!self.player0) as usize
TwoPlayerIndex(p) == IF ~p.player0 THEN 1 ELSE 0

(***************************************************************************)
(* MaskedTicTacToe (src/games/masked_tic_tac_toe.rs).  A BitBoard is held  *)
(* as the set of its one-bits, like Board above; board[i + 1] is the Rust  *)
(* board[i], history[i + 1] the Rust history[i].                           *)
(***************************************************************************)
\* the tic_tac_toe.rs that masked_tic_tac_toe.rs imports names the nine actions
\* ALL_ACTIONS and the full board FULL: Action(1 << k) for k in 0..9, and 0b111_111_111
ALL_ACTIONS == ALL_MOVES

FULL == 0..8

BitBoardIsOccupied(b, action) == BitAnd(b, action) = action

BitBoardApply(b, action) == BitOr(b, action)

\* enum Info<T>
Visible(a) == [tag |-> "Visible", action |-> a]

Masked(a) == [tag |-> "Masked", action |-> a]

Invisible == [tag |-> "Invisible"]

\* MaskedTicTacToe::new(masked)
MaskedNew(masked) ==
    [board |-> <<{}, {}>>, masked |-> masked, no_action |-> {}, history |-> << >>,
     current_player |-> TwoPlayerDefault, player1_piece |-> "X"]

Genesis(self) == MaskedNew(self.masked)

LastPlayer(self) == TwoPlayerLast(self.current_player)

IsMasked(self, action) == \E i \in 1..Len(self.masked) : self.masked[i] = action

IsFull(self) == BitOr(self.board[1], self.board[2]) = FULL

LastPlayerWins(self) ==
    LET board == self.board[TwoPlayerIndex(LastPlayer(self)) + 1]
    IN  \E i \in 1..8 : BitAnd(WINNING_POSITIONS[i], board) = WINNING_POSITIONS[i]

PlayerOccupies(self, player, action) ==
    BitBoardIsOccupied(self.board[TwoPlayerIndex(player) + 1], action)

\* is_legal that treats a masked square like any other square
MaskedIsLegalNoMask(self, action) ==
    IF PlayerOccupies(self, self.current_player, action) THEN FALSE
    ELSE ~PlayerOccupies(self, LastPlayer(self), action)

MaskedIsLegal(self, action) ==
    IF PlayerOccupies(self, self.current_player, action) THEN FALSE
    ELSE IF IsMasked(self, action) THEN ~BitBoardIsOccupied(self.no_action, action)
    ELSE ~PlayerOccupies(self, LastPlayer(self), action)

\* apply_unchecked that gives the square to the mover whoever holds it
MaskedApplyUncheckedTake(self, action) ==
    [board |-> [self.board EXCEPT ![TwoPlayerIndex(self.current_player) + 1] =
                                      BitBoardApply(@, action)],
     history |-> Append(self.history, action),
     no_action |-> IF PlayerOccupies(self, LastPlayer(self), action)
                   THEN BitBoardApply(self.no_action, action)
                   ELSE self.no_action,
     masked |-> self.masked,
     current_player |-> LastPlayer(self),
     player1_piece |-> self.player1_piece]

\* apply_unchecked that does not push the action onto the history
MaskedApplyUncheckedForget(self, action) ==
    LET failed == PlayerOccupies(self, LastPlayer(self), action)
    IN  [board |-> IF failed THEN self.board
                   ELSE [self.board EXCEPT ![TwoPlayerIndex(self.current_player) + 1] =
                                               BitBoardApply(@, action)],
         history |-> self.history,
         no_action |-> IF failed THEN BitBoardApply(self.no_action, action)
                       ELSE self.no_action,
         masked |-> self.masked,
         current_player |-> LastPlayer(self),
         player1_piece |-> self.player1_piece]

MaskedApplyUnchecked(self, action) ==
    LET last_player == LastPlayer(self)
        failed == PlayerOccupies(self, last_player, action)
    IN  [board |-> IF failed THEN self.board
                   ELSE [self.board EXCEPT ![TwoPlayerIndex(self.current_player) + 1] =
                                               BitBoardApply(@, action)],
         history |-> Append(self.history, action),
         no_action |-> IF failed THEN BitBoardApply(self.no_action, action)
                       ELSE self.no_action,
         masked |-> self.masked,
         current_player |-> last_player,
         player1_piece |-> self.player1_piece]

\* apply_unchecked_mut that does not record a failed attempt
MaskedApplyUncheckedMutNoRecord(self, action) ==
    LET failed == PlayerOccupies(self, LastPlayer(self), action)
    IN  [self EXCEPT
            !.board[TwoPlayerIndex(self.current_player) + 1] =
                IF failed THEN @ ELSE BitBoardApply(@, action),
            !.history = Append(@, action),
            !.current_player = TwoPlayerNext(@)]

MaskedApplyUncheckedMut(self, action) ==
    LET failed == PlayerOccupies(self, LastPlayer(self), action)
    IN  [self EXCEPT
            !.no_action = IF failed THEN BitBoardApply(@, action) ELSE @,
            !.board[TwoPlayerIndex(self.current_player) + 1] =
                IF failed THEN @ ELSE BitBoardApply(@, action),
            !.history = Append(@, action),
            !.current_player = TwoPlayerNext(@)]

\* outcome that does not report the full board
MaskedOutcomeNoDraw(self) ==
    IF LastPlayerWins(self) THEN Win(LastPlayer(self)) ELSE None

\* outcome that looks at the full board before the line of the last player
MaskedOutcomeDrawFirst(self) ==
    IF IsFull(self) THEN Draw
    ELSE IF LastPlayerWins(self) THEN Win(LastPlayer(self))
    ELSE None

MaskedOutcome(self) ==
    IF LastPlayerWins(self) THEN Win(LastPlayer(self))
    ELSE IF IsFull(self) THEN Draw
    ELSE None

\* legal_actions(): ALL_ACTIONS.iter().filter(is_legal)
MaskedLegalActions(self) == SelectSeq(ALL_ACTIONS, LAMBDA a : MaskedIsLegal(self, a))

\* legal_masked(): self.masked.iter().filter(is_legal)
LegalMasked(self) == SelectSeq(self.masked, LAMBDA a : MaskedIsLegal(self, a))

\* impl GameState for MaskedTicTacToe: apply
MaskedApply(self, action) ==
    LET next_state == MaskedApplyUnchecked(self, action)
    IN  IF MaskedOutcome(next_state) # None
        THEN Finished(next_state, MaskedOutcome(next_state))
        ELSE Ongoing(next_state)

\* visible_history(): the map over the history with its one flag first_masked_action;
\* l holds the loop's locals, l.i the 1-based position (the Rust i is l.i - 1)
RECURSIVE VisibleHistoryLoop(_)
\* the flag is never cleared: each of the mover's masked actions is shown Visible
VisibleHistoryLoopKeepFlag(l) ==
    IF l.i > Len(l.self.history) THEN l.acc
    ELSE LET action == l.self.history[l.i]
         IN  IF IsMasked(l.self, action)
             THEN VisibleHistoryLoop([l EXCEPT
                      !.i = @ + 1,
                      !.acc = Append(@,
                          IF (l.i - 1) % 2 # TwoPlayerIndex(l.self.current_player)
                          THEN Invisible
                          ELSE IF l.first_masked_action THEN Visible(action)
                          ELSE Masked(action))])
             ELSE VisibleHistoryLoop([l EXCEPT !.i = @ + 1, !.acc = Append(@, Visible(action))])

\* the other player's masked actions are shown with their square
VisibleHistoryLoopReveal(l) ==
    IF l.i > Len(l.self.history) THEN l.acc
    ELSE LET action == l.self.history[l.i]
         IN  IF IsMasked(l.self, action)
             THEN VisibleHistoryLoop([l EXCEPT
                      !.i = @ + 1,
                      !.first_masked_action = FALSE,
                      !.acc = Append(@,
                          IF l.first_masked_action THEN Visible(action)
                          ELSE Masked(action))])
             ELSE VisibleHistoryLoop([l EXCEPT !.i = @ + 1, !.acc = Append(@, Visible(action))])

VisibleHistoryLoop(l) ==
    IF l.i > Len(l.self.history) THEN l.acc
    ELSE LET action == l.self.history[l.i]
         IN  IF IsMasked(l.self, action)
             THEN VisibleHistoryLoop([l EXCEPT
                      !.i = @ + 1,
                      !.first_masked_action = FALSE,
                      !.acc = Append(@,
                          IF (l.i - 1) % 2 # TwoPlayerIndex(l.self.current_player)
                          THEN Invisible
                          ELSE IF l.first_masked_action THEN Visible(action)
                          ELSE Masked(action))])
             ELSE VisibleHistoryLoop([l EXCEPT !.i = @ + 1, !.acc = Append(@, Visible(action))])

VisibleHistory(self) ==
    VisibleHistoryLoop([self |-> self, i |-> 1, first_masked_action |-> TRUE, acc |-> << >>])

(***************************************************************************)
(* A game of MaskedTicTacToe played with legal actions, through            *)
(* GameState::apply or through apply_unchecked_mut as the tests do, for    *)
(* each of the masked arrays of MaskedArrays and up to MaxPlies actions.   *)
(* rules holds the masked array the game was created with.                 *)
(***************************************************************************)
MaxPlies == 5

MaskedArrays == { << {0}, {1} >>, << {4} >> }

MaskedInit ==
    /\ session = "Masked"
    /\ rules \in MaskedArrays
    /\ player_state = MaskedNew(rules)
    /\ player_evaluator = << >>
    /\ players = << >>
    /\ result = None
    /\ out = [op |-> "none"]

\* state.apply(&a) with a legal action of a game that is not over
CallMaskedApply(a) ==
    /\ result = None
    /\ Len(player_state.history) < MaxPlies
    /\ MaskedIsLegal(player_state, a)
    /\ \E applied \in {MaskedApply(player_state, a)} :
          /\ player_state' = applied.state
          /\ result' = IF applied.tag = "Finished" THEN applied ELSE None
    /\ UNCHANGED <<rules, session, player_evaluator, players, out>>

\* state.apply_unchecked_mut(&a) with a legal action of a game that is not over
CallApplyUncheckedMut(a) ==
    /\ result = None
    /\ Len(player_state.history) < MaxPlies
    /\ MaskedIsLegal(player_state, a)
    /\ \E next_state \in {MaskedApplyUncheckedMut(player_state, a)} :
          /\ player_state' = next_state
          /\ result' = IF MaskedOutcome(next_state) # None
                       THEN Finished(next_state, MaskedOutcome(next_state))
                       ELSE None
    /\ UNCHANGED <<rules, session, player_evaluator, players, out>>

MaskedNext ==
    \/ \E i \in 1..9 : CallMaskedApply(ALL_ACTIONS[i])
    \/ \E i \in 1..9 : CallApplyUncheckedMut(ALL_ACTIONS[i])

MaskedSpec == MaskedInit /\ [][MaskedNext]_vars

\* Player 0 moves first and the players alternate: who made the n-th action (n from 1)
MoverOf(n) == (n - 1) % 2

\* the squares player p holds after the first n actions of h: an action takes its
\* square unless the other player holds it
RECURSIVE Held(_, _, _)
Held(h, p, n) ==
    IF n = 0 THEN {}
    ELSE IF MoverOf(n) = p /\ Square(h[n]) \notin Held(h, 1 - p, n - 1)
         THEN Held(h, p, n - 1) \cup {Square(h[n])}
         ELSE Held(h, p, n - 1)

\* the squares on which player p made an attempt that failed
FailedAttempts(h, p) ==
    {Square(h[n]) : n \in {m \in 1..Len(h) : MoverOf(m) = p /\ Square(h[m]) \in Held(h, 1 - p, m - 1)}}

MaskedSquares == {Square(rules[j]) : j \in 1..Len(rules)}

ToMove == TwoPlayerIndex(player_state.current_player)

\* C20: is_legal(a) holds for the player to move exactly when that player does not
\* hold a's square and, for a masked square, that player made no failed attempt on
\* it (whoever holds it), for a non-masked square, the opponent does not hold it
IsLegalAsStated ==
    \A i \in 1..9 :
        LET a == ALL_ACTIONS[i]
            h == player_state.history
        IN  MaskedIsLegal(player_state, a) <=>
                /\ Square(a) \notin Held(h, ToMove, Len(h))
                /\ IF Square(a) \in MaskedSquares
                   THEN Square(a) \notin FailedAttempts(h, ToMove)
                   ELSE Square(a) \notin Held(h, 1 - ToMove, Len(h))

\* a masked square is legal while the opponent holds it, and another one is
\* illegal after the failed attempt of the player to move
SecretSquareLegalSeen ==
    /\ session = "Masked"
    /\ \E q \in MaskedSquares :
          /\ q \in Held(player_state.history, 1 - ToMove, Len(player_state.history))
          /\ MaskedIsLegal(player_state, {q})
    /\ \E q \in MaskedSquares :
          /\ q \in FailedAttempts(player_state.history, ToMove)
          /\ ~MaskedIsLegal(player_state, {q})

\* the positions of the history at which player p made a masked action
MaskedBy(p) ==
    {n \in 1..Len(player_state.history) :
        MoverOf(n) = p /\ Square(player_state.history[n]) \in MaskedSquares}

\* C15 as stated: in visible_history, the first masked action of the player to move is
\* Visible(action) and each of their later masked actions is Masked(action), whether
\* or not the opponent made a masked action earlier
OwnFirstMaskedVisible ==
    session = "Masked" =>
        \A n \in MaskedBy(ToMove) :
            VisibleHistory(player_state)[n] =
                IF \A m \in MaskedBy(ToMove) : n <= m
                THEN Visible(player_state.history[n])
                ELSE Masked(player_state.history[n])

\* C15 amended: a masked action of the player to move is Visible(action) when no
\* masked action of either player comes before it, and Masked(action) otherwise
FirstMaskedOfGameVisible ==
    session = "Masked" =>
        \A n \in MaskedBy(ToMove) :
            VisibleHistory(player_state)[n] =
                IF \A m \in MaskedBy(0) \cup MaskedBy(1) : n <= m
                THEN Visible(player_state.history[n])
                ELSE Masked(player_state.history[n])

\* the player to move sees their first masked action Visible and a later one Masked
OwnMaskedBothSeen ==
    /\ session = "Masked"
    /\ \E n, m \in MaskedBy(ToMove) :
          /\ n < m
          /\ VisibleHistory(player_state)[n] = Visible(player_state.history[n])
          /\ VisibleHistory(player_state)[m] = Masked(player_state.history[m])

\* C16: in visible_history every masked action of the opponent of the player to move
\* is Invisible, every action on a non-masked square is Visible(action), and the
\* sequence has one entry per action of the history, in order
OpponentMaskedInvisible ==
    session = "Masked" =>
        /\ Len(VisibleHistory(player_state)) = Len(player_state.history)
        /\ \A n \in 1..Len(player_state.history) :
              /\ n \in MaskedBy(1 - ToMove) => VisibleHistory(player_state)[n] = Invisible
              /\ Square(player_state.history[n]) \notin MaskedSquares
                    => VisibleHistory(player_state)[n] = Visible(player_state.history[n])

\* the history holds a masked action of the opponent and actions of both players on
\* squares that are not masked
OpponentMaskedSeen ==
    /\ session = "Masked"
    /\ MaskedBy(1 - ToMove) # {}
    /\ \E n, m \in 1..Len(player_state.history) :
          /\ MoverOf(n) # MoverOf(m)
          /\ Square(player_state.history[n]) \notin MaskedSquares
          /\ Square(player_state.history[m]) \notin MaskedSquares

(***************************************************************************)
(* MaskedEvaluator (src/games/masked_tic_tac_toe.rs).  `self` is the       *)
(* evaluator: its visited map from (visible history, action) to the pair   *)
(* (my_eval, their_eval).  A Vec is a sequence; evaluate returns the pair  *)
(* res, the evaluator after the call, and panic: whether it panicked       *)
(* (unreachable!), res being << >> then.  Two instruments: calls counts    *)
(* the invocations of evaluate, built the calls of superposition.          *)
(***************************************************************************)
MaskedEvaluatorNew == [visited |-> << >>, calls |-> 0, built |-> 0]

\* the concatenation of the pushes of a nested for loop
RECURSIVE Flatten(_)
Flatten(ss) == IF ss = << >> THEN << >> ELSE Head(ss) \o Flatten(Tail(ss))

\* no pruning of the states whose game is over
NotOverNoPruning(new_state) == TRUE

NotOver(new_state) == MaskedOutcome(new_state) = None

\* the Info::Invisible arm trying the first legal masked action only
BranchInvisibleFirst(state) ==
    SelectSeq([k \in 1..(IF LegalMasked(state) = << >> THEN 0 ELSE 1) |->
                   MaskedApplyUnchecked(state, LegalMasked(state)[k])],
              NotOver)

\* the Info::Invisible arm for one state: every legal masked action, kept when the
\* game is not over after it
BranchInvisible(state) ==
    SelectSeq([k \in 1..Len(LegalMasked(state)) |->
                   MaskedApplyUnchecked(state, LegalMasked(state)[k])],
              NotOver)

\* the Info::Visible(action) | Info::Masked(action) arm
ApplyKnown(superposition, action) ==
    LET legal == SelectSeq(superposition, LAMBDA state : MaskedIsLegal(state, action))
    IN  SelectSeq([k \in 1..Len(legal) |-> MaskedApplyUnchecked(legal[k], action)],
                  NotOver)

RECURSIVE SuperpositionLoop(_)
\* the Invisible arm branching over every legal action, masked or not
SuperpositionLoopAnyAction(l) ==
    IF l.history = << >> THEN l.superposition
    ELSE LET observed == Head(l.history)
         IN  IF observed.tag \in {"Visible", "Masked"}
             THEN SuperpositionLoop([superposition |-> ApplyKnown(l.superposition, observed.action),
                                     history |-> Tail(l.history)])
             ELSE SuperpositionLoop(
                      [superposition |->
                           Flatten([j \in 1..Len(l.superposition) |->
                               SelectSeq([k \in 1..Len(MaskedLegalActions(l.superposition[j])) |->
                                              MaskedApplyUnchecked(l.superposition[j],
                                                  MaskedLegalActions(l.superposition[j])[k])],
                                         NotOver)]),
                       history |-> Tail(l.history)])

\* `for observed in history`: l holds the superposition so far and the history left
SuperpositionLoop(l) ==
    IF l.history = << >> THEN l.superposition
    ELSE LET observed == Head(l.history)
         IN  IF observed.tag \in {"Visible", "Masked"}
             THEN SuperpositionLoop([superposition |-> ApplyKnown(l.superposition, observed.action),
                                     history |-> Tail(l.history)])
             ELSE SuperpositionLoop([superposition |-> Flatten([k \in 1..Len(l.superposition) |->
                                                         BranchInvisible(l.superposition[k])]),
                                     history |-> Tail(l.history)])

Superposition(genesis, history) ==
    SuperpositionLoop([superposition |-> <<genesis>>, history |-> history])

\* min that keeps its left argument
MinI8Left(x, y) == x

MinI8(x, y) == IF x < y THEN x ELSE y

MaxI8(x, y) == IF x > y THEN x ELSE y

\* the match with an arm (1, -1) that leaves my_eval as it is
StepAheadKeep(temp, my_eval, their_step_ahead_eval) ==
    IF temp = <<1, -1>> THEN <<my_eval, 1>>
    ELSE IF temp = <<0, 0>> THEN <<MinI8(my_eval, 0), MaxI8(their_step_ahead_eval, 0)>>
    ELSE IF temp = <<0, -1>> THEN <<-1, MaxI8(their_step_ahead_eval, 0)>>
    ELSE IF temp = <<-1, 1>> THEN <<my_eval, their_step_ahead_eval>>
    ELSE IF temp = <<-1, 0>> THEN <<MinI8(my_eval, 0), their_step_ahead_eval>>
    ELSE IF temp = <<-1, -1>> THEN <<-1, their_step_ahead_eval>>
    ELSE << >>

\* the match on (their_temp_eval, my_temp_eval): the new (my_eval, their_step_ahead_eval),
\* or << >> for the arms that are unreachable!()
StepAhead(temp, my_eval, their_step_ahead_eval) ==
    IF temp = <<1, -1>> THEN <<-1, 1>>
    ELSE IF temp = <<0, 0>> THEN <<MinI8(my_eval, 0), MaxI8(their_step_ahead_eval, 0)>>
    ELSE IF temp = <<0, -1>> THEN <<-1, MaxI8(their_step_ahead_eval, 0)>>
    ELSE IF temp = <<-1, 1>> THEN <<my_eval, their_step_ahead_eval>>
    ELSE IF temp = <<-1, 0>> THEN <<MinI8(my_eval, 0), their_step_ahead_eval>>
    ELSE IF temp = <<-1, -1>> THEN <<-1, their_step_ahead_eval>>
    ELSE << >>

RECURSIVE MaskedEvaluate(_, _, _), OpponentLoop(_), CandidateLoop(_)

\* `for opponent_action in opponent_actions`: l holds self, possible_next_state, the
\* actions left, my_eval and their_step_ahead_eval; panic is set when a panic unwinds
OpponentLoop(l) ==
    IF l.actions = << >> THEN l
    ELSE LET r == MaskedEvaluate(l.self, l.possible_next_state, Head(l.actions))
             step == StepAhead(r.res, l.my_eval, l.their_step_ahead_eval)
         IN  IF r.panic \/ step = << >>
             THEN [l EXCEPT !.self = r.self, !.panic = TRUE]
             ELSE OpponentLoop([l EXCEPT !.self = r.self, !.actions = Tail(@),
                                         !.my_eval = step[1],
                                         !.their_step_ahead_eval = step[2]])

\* CandidateLoop taking the bound of the latest candidate for their_eval
CandidateLoopOverwrite(l) ==
    IF l.superposition = << >> THEN l
    ELSE LET possible_current_state == Head(l.superposition)
             possible_next_state == MaskedApplyUnchecked(possible_current_state, l.action)
             outcome == MaskedOutcome(possible_next_state)
         IN  IF ~MaskedIsLegal(possible_current_state, l.action)
             THEN CandidateLoop([l EXCEPT !.superposition = Tail(@)])
             ELSE IF outcome = Win(l.current_player)
             THEN CandidateLoop([l EXCEPT !.superposition = Tail(@), !.their_eval = -1])
             ELSE IF outcome = Draw
             THEN CandidateLoop([l EXCEPT !.superposition = Tail(@),
                                          !.my_eval = MinI8(@, 0), !.their_eval = MinI8(@, 0)])
             ELSE IF outcome # None
             THEN [l EXCEPT !.panic = TRUE]
             ELSE LET o == OpponentLoop([self |-> l.self,
                                         possible_next_state |-> possible_next_state,
                                         actions |-> MaskedLegalActions(possible_next_state),
                                         my_eval |-> l.my_eval,
                                         their_step_ahead_eval |-> -1,
                                         panic |-> FALSE])
                  IN  IF o.panic THEN [l EXCEPT !.self = o.self, !.panic = TRUE]
                      ELSE CandidateLoop([l EXCEPT !.superposition = Tail(@),
                                                   !.self = o.self,
                                                   !.my_eval = o.my_eval,
                                                   !.their_eval = o.their_step_ahead_eval])

\* `for possible_current_state in superposition`: l holds self, the candidates left,
\* current_player, action, my_eval and their_eval
CandidateLoop(l) ==
    IF l.superposition = << >> THEN l
    ELSE LET possible_current_state == Head(l.superposition)
             possible_next_state == MaskedApplyUnchecked(possible_current_state, l.action)
             outcome == MaskedOutcome(possible_next_state)
         IN  IF ~MaskedIsLegal(possible_current_state, l.action)
             THEN CandidateLoop([l EXCEPT !.superposition = Tail(@)])
             ELSE IF outcome = Win(l.current_player)
             THEN CandidateLoop([l EXCEPT !.superposition = Tail(@), !.their_eval = -1])
             ELSE IF outcome = Draw
             THEN CandidateLoop([l EXCEPT !.superposition = Tail(@),
                                          !.my_eval = MinI8(@, 0), !.their_eval = MinI8(@, 0)])
             ELSE IF outcome # None
             THEN [l EXCEPT !.panic = TRUE]
             ELSE LET o == OpponentLoop([self |-> l.self,
                                         possible_next_state |-> possible_next_state,
                                         actions |-> MaskedLegalActions(possible_next_state),
                                         my_eval |-> l.my_eval,
                                         their_step_ahead_eval |-> -1,
                                         panic |-> FALSE])
                  IN  IF o.panic THEN [l EXCEPT !.self = o.self, !.panic = TRUE]
                      ELSE CandidateLoop([l EXCEPT !.superposition = Tail(@),
                                                   !.self = o.self,
                                                   !.my_eval = o.my_eval,
                                                   !.their_eval = MinI8(@, o.their_step_ahead_eval)])

\* evaluate taking the state it is given for the only state the player may be in
MaskedEvaluatePeek(self, state, action) ==
    LET history == VisibleHistory(state)
        entered == [self EXCEPT !.calls = @ + 1]
    IN  IF Len(history) > 11 THEN [res |-> << >>, self |-> entered, panic |-> TRUE]
        ELSE IF <<history, action>> \in DOMAIN self.visited
        THEN [res |-> self.visited[<<history, action>>], self |-> entered, panic |-> FALSE]
        ELSE LET l == CandidateLoop([self |-> [entered EXCEPT !.built = @ + 1],
                                     superposition |-> <<state>>,
                                     current_player |-> state.current_player,
                                     action |-> action,
                                     my_eval |-> 1, their_eval |-> 1, panic |-> FALSE])
             IN  IF l.panic THEN [res |-> << >>, self |-> l.self, panic |-> TRUE]
                 ELSE [res |-> <<l.my_eval, l.their_eval>>,
                       self |-> [l.self EXCEPT !.visited =
                                    (<<history, action>> :> <<l.my_eval, l.their_eval>>) @@ @],
                       panic |-> FALSE]

\* evaluate without the lookup in visited
MaskedEvaluateNoLookup(self, state, action) ==
    LET history == VisibleHistory(state)
        entered == [self EXCEPT !.calls = @ + 1]
    IN  IF Len(history) > 11 THEN [res |-> << >>, self |-> entered, panic |-> TRUE]
        ELSE LET l == CandidateLoop([self |-> [entered EXCEPT !.built = @ + 1],
                                     superposition |-> Superposition(Genesis(state), history),
                                     current_player |-> state.current_player,
                                     action |-> action,
                                     my_eval |-> 1, their_eval |-> 1, panic |-> FALSE])
             IN  IF l.panic THEN [res |-> << >>, self |-> l.self, panic |-> TRUE]
                 ELSE [res |-> <<l.my_eval, l.their_eval>>,
                       self |-> [l.self EXCEPT !.visited =
                                    (<<history, action>> :> <<l.my_eval, l.their_eval>>) @@ @],
                       panic |-> FALSE]

\* MaskedEvaluator::evaluate
MaskedEvaluate(self, state, action) ==
    LET history == VisibleHistory(state)
        entered == [self EXCEPT !.calls = @ + 1]
    IN  IF Len(history) > 11 THEN [res |-> << >>, self |-> entered, panic |-> TRUE]
        ELSE IF <<history, action>> \in DOMAIN self.visited
        THEN [res |-> self.visited[<<history, action>>], self |-> entered, panic |-> FALSE]
        ELSE LET l == CandidateLoop([self |-> [entered EXCEPT !.built = @ + 1],
                                     superposition |-> Superposition(Genesis(state), history),
                                     current_player |-> state.current_player,
                                     action |-> action,
                                     my_eval |-> 1, their_eval |-> 1, panic |-> FALSE])
             IN  IF l.panic THEN [res |-> << >>, self |-> l.self, panic |-> TRUE]
                 ELSE [res |-> <<l.my_eval, l.their_eval>>,
                       self |-> [l.self EXCEPT !.visited =
                                    (<<history, action>> :> <<l.my_eval, l.their_eval>>) @@ @],
                       panic |-> FALSE]

(***************************************************************************)
(* One MaskedEvaluator instance used on a position of MaskedTicTacToe, as  *)
(* in src/main.rs where the evaluator is created for the state given to    *)
(* GamePlayer::new.  The position is reached by the players taking the     *)
(* first or the last of their legal actions; once at most MaxEmpty squares *)
(* are empty the evaluator is created and evaluate is called on the        *)
(* position, at most MaxEvaluations times.  out.n counts the calls of      *)
(* evaluate.                                                               *)
(***************************************************************************)
MaxEmpty == 3

MaxEvaluations == 2

EvalArrays == { << >>, << {0}, {1} >>, << {7}, {8} >>, << {8} >> }

\* the actions offered to the player to move: the first and the last legal action
Offered(s) ==
    IF MaskedLegalActions(s) = << >> THEN << >>
    ELSE <<Head(MaskedLegalActions(s)), MaskedLegalActions(s)[Len(MaskedLegalActions(s))]>>

\* the state reached from s by the actions of h, each legal in a game not over
RECURSIVE ReplayFrom(_, _)
ReplayFrom(s, h) ==
    IF h = << >> THEN Some(s)
    ELSE IF MaskedOutcome(s) # None \/ ~MaskedIsLegal(s, Head(h)) THEN None
    ELSE ReplayFrom(MaskedApplyUnchecked(s, Head(h)), Tail(h))

Empty(s) == FULL \ BitOr(s.board[1], s.board[2])

EvaluatorInit ==
    /\ session = "MaskedEvaluator"
    /\ rules \in EvalArrays
    /\ player_state = MaskedNew(rules)
    /\ player_evaluator = MaskedEvaluatorNew
    /\ players = << >>
    /\ result = None
    /\ out = [op |-> "none", n |-> 0]

\* state.apply(&a) with one of the actions offered, before the evaluator is used
EvaluatorMove(a) ==
    /\ result = None
    /\ out.n = 0
    /\ \E k \in 1..Len(Offered(player_state)) : Offered(player_state)[k] = a
    /\ \E applied \in {MaskedApply(player_state, a)} :
          /\ player_state' = applied.state
          /\ result' = IF applied.tag = "Finished" THEN applied ELSE None
    /\ UNCHANGED <<rules, session, player_evaluator, players, out>>

\* evaluator.evaluate(&state, &a) with a legal action of the state of the game
CallMaskedEvaluate(a) ==
    /\ result = None
    /\ out.n < MaxEvaluations
    /\ Cardinality(Empty(player_state)) <= MaxEmpty
    /\ MaskedIsLegal(player_state, a)
    /\ \E r \in {MaskedEvaluate(player_evaluator, player_state, a)} :
          /\ player_evaluator' = [r.self EXCEPT !.calls = 0, !.built = 0]
          /\ out' = [op |-> "evaluate", state |-> player_state, action |-> a,
                     res |-> r.res, panic |-> r.panic,
                     hit |-> <<VisibleHistory(player_state), a>>
                                 \in DOMAIN player_evaluator.visited,
                     calls |-> r.self.calls, built |-> r.self.built,
                     before |-> player_evaluator.visited,
                     n |-> out.n + 1]
    /\ UNCHANGED <<rules, session, player_state, players, result>>

EvaluatorNext ==
    \/ \E i \in 1..9 : EvaluatorMove(ALL_ACTIONS[i])
    \/ \E i \in 1..9 : CallMaskedEvaluate(ALL_ACTIONS[i])

EvaluatorSpec == EvaluatorInit /\ [][EvaluatorNext]_vars

\* a fresh evaluator's pair for (s, a)
FreshPair(s, a) == MaskedEvaluate(MaskedEvaluatorNew, s, a).res

\* the elements of a sequence
Range(s) == {s[k] : k \in 1..Len(s)}

\* C17: every state c of superposition(genesis, h), h the visible history of a state
\* reached in play, has visible_history() = h, and is the state its own action
\* history reaches from genesis
SuperpositionRoundTrip ==
    \A c \in Range(Superposition(Genesis(player_state), VisibleHistory(player_state))) :
        /\ VisibleHistory(c) = VisibleHistory(player_state)
        /\ ReplayFrom(Genesis(player_state), c.history) = Some(c)

\* evaluate has run on a state whose superposition holds that state and another one
SeveralCandidatesSeen ==
    /\ out.op = "evaluate"
    /\ out.state = player_state
    /\ player_state \in Range(Superposition(Genesis(player_state), VisibleHistory(player_state)))
    /\ Len(Superposition(Genesis(player_state), VisibleHistory(player_state))) > 1

\* the histories that differ from h in masked actions only
RECURSIVE Variants(_, _)
Variants(masked, h) ==
    IF h = << >> THEN {<< >>}
    ELSE {<<x>> \o rest : x \in (IF Head(h) \in Range(masked) THEN Range(masked) ELSE {Head(h)}),
                          rest \in Variants(masked, Tail(h))}

\* the states of the same game, reached by legal actions, with the visible history of s
Twins(s) ==
    {r.val : r \in {x \in {ReplayFrom(Genesis(s), h) : h \in Variants(s.masked, s.history)} :
                       /\ x # None
                       /\ VisibleHistory(x.val) = VisibleHistory(s)}}

\* C18: the pair a fresh evaluator returns for (s1, a) is the pair a fresh evaluator
\* returns for (s2, a), for every state s2 of the same game reached by legal actions
\* whose visible_history() equals that of s1
HiddenInformationIgnored ==
    (out.op = "evaluate" /\ out.n = 1 /\ out.state = player_state) =>
        \A s2 \in Twins(out.state) : FreshPair(s2, out.action) = out.res

\* a fresh evaluation has run on a state that has a twin with other boards
TwinSeen ==
    /\ out.op = "evaluate" /\ out.n = 1
    /\ \E s2 \in Twins(out.state) : s2.board # out.state.board

\* C19: for every state that is not over, of a game with any masked array, and every
\* action whose (visible_history, action) key is in the cache of the instance, the
\* cached pair is the pair a fresh evaluator computes for that state and action
CachedPairIsFresh ==
    \A masked \in EvalArrays :
        LET s == ReplayFrom(MaskedNew(masked), player_state.history)
        IN  (s # None /\ MaskedOutcome(s.val) = None) =>
                \A i \in 1..9 :
                    <<VisibleHistory(s.val), ALL_ACTIONS[i]>> \in DOMAIN player_evaluator.visited
                        => player_evaluator.visited[<<VisibleHistory(s.val), ALL_ACTIONS[i]>>]
                               = FreshPair(s.val, ALL_ACTIONS[i])

(***************************************************************************)
(* Whole games played with legal actions from the initial position, until  *)
(* the game reports an outcome: tic-tac-toe on BoardState through          *)
(* DynamicGameState::apply, and MaskedTicTacToe through GameState::apply   *)
(* with no masked square (N = 0) and with the two masked squares of the    *)
(* tests (N = 2).                                                          *)
(***************************************************************************)
PlayArrays == { << >>, << {0}, {1} >> }

LegalPlayInit ==
    /\ \/ /\ session = "LegalBoard"
          /\ rules = << >>
          /\ player_state = BoardDefault
       \/ /\ session = "LegalMasked"
          /\ rules \in PlayArrays
          /\ player_state = MaskedNew(rules)
    /\ player_evaluator = << >>
    /\ players = << >>
    /\ result = None
    /\ out = [op |-> "none"]

\* BoardState: state.apply(&a) returning Ok, in a game that is not over
LegalBoardMove(a) ==
    /\ session = "LegalBoard"
    /\ result = None
    /\ \E applied \in {BoardApply(player_state, a)} :
          /\ applied.tag = "Ok"
          /\ player_state' = applied.val
          /\ result' = IF BoardOutcome(applied.val) # None
                       THEN Finished(applied.val, BoardOutcome(applied.val))
                       ELSE None
    /\ UNCHANGED <<rules, session, player_evaluator, players, out>>

\* MaskedTicTacToe: state.apply(&a) with a legal action, in a game that is not over
LegalMaskedMove(a) ==
    /\ session = "LegalMasked"
    /\ result = None
    /\ MaskedIsLegal(player_state, a)
    /\ \E applied \in {MaskedApply(player_state, a)} :
          /\ player_state' = applied.state
          /\ result' = IF applied.tag = "Finished" THEN applied ELSE None
    /\ UNCHANGED <<rules, session, player_evaluator, players, out>>

LegalPlayNext ==
    \/ \E i \in 1..9 : LegalBoardMove(ALL_MOVES[i])
    \/ \E i \in 1..9 : LegalMaskedMove(ALL_ACTIONS[i])

LegalPlaySpec == LegalPlayInit /\ [][LegalPlayNext]_vars

(***************************************************************************)
(* NPlayer and the rest of TwoPlayer (src/game_state/player.rs), and the   *)
(* three player types under any sequence of calls of next, last, next_mut  *)
(* and last_mut.  rules holds the type and the number of players the       *)
(* player was created with, player_state the player.                       *)
(***************************************************************************)
TwoPlayerNew(player0) == [player0 |-> player0]

TwoPlayerNextMut(p) == [p EXCEPT !.player0 = ~p.player0]

TwoPlayerLastMut(p) == TwoPlayerNextMut(p)

NPlayerNew(n_players) ==
    IF n_players > 2 THEN Some([n_players |-> n_players, current |-> 0]) ELSE None

NPlayerWrappingSub(p) == IF p.current = 0 THEN p.n_players - 1 ELSE p.current - 1

NPlayerIndex(p) == p.current

NPlayerNext(p) == [n_players |-> p.n_players, current |-> (p.current + 1) % p.n_players]

NPlayerNextMut(p) == [p EXCEPT !.current = (p.current + 1) % p.n_players]

NPlayerLast(p) == [n_players |-> p.n_players, current |-> NPlayerWrappingSub(p)]

NPlayerLastMut(p) == [p EXCEPT !.current = NPlayerWrappingSub(p)]

\* Player::last_mut
PlayerLastMut(p) == [p EXCEPT !.current = wrapping_sub(p)]

MaxPlayers == 6

\* next(), last(), next_mut() and last_mut() of the player's type
TurnNext(kind, p) ==
    IF kind = "Player" THEN PlayerNext(p)
    ELSE IF kind = "NPlayer" THEN NPlayerNext(p) ELSE TwoPlayerNext(p)

TurnLast(kind, p) ==
    IF kind = "Player" THEN PlayerLast(p)
    ELSE IF kind = "NPlayer" THEN NPlayerLast(p) ELSE TwoPlayerLast(p)

TurnNextMut(kind, p) ==
    IF kind = "Player" THEN PlayerNextMut(p)
    ELSE IF kind = "NPlayer" THEN NPlayerNextMut(p) ELSE TwoPlayerNextMut(p)

TurnLastMut(kind, p) ==
    IF kind = "Player" THEN PlayerLastMut(p)
    ELSE IF kind = "NPlayer" THEN NPlayerLastMut(p) ELSE TwoPlayerLastMut(p)

TurnIndex(kind, p) ==
    IF kind = "Player" THEN player_index(p)
    ELSE IF kind = "NPlayer" THEN NPlayerIndex(p) ELSE TwoPlayerIndex(p)

TurnInit ==
    /\ session = "Turn"
    /\ \/ \E n \in 1..MaxPlayers :
             rules = [kind |-> "Player", n |-> n] /\ player_state = PlayerNew(n)
       \/ \E n \in 1..MaxPlayers :
             /\ NPlayerNew(n) # None
             /\ rules = [kind |-> "NPlayer", n |-> n] /\ player_state = NPlayerNew(n).val
       \/ \E player0 \in BOOLEAN :
             rules = [kind |-> "TwoPlayer", n |-> 2] /\ player_state = TwoPlayerNew(player0)
    /\ player_evaluator = << >>
    /\ players = << >>
    /\ result = None
    /\ out = [op |-> "none"]

\* player.next()
CallNext ==
    /\ out' = [op |-> "next", self |-> player_state, res |-> TurnNext(rules.kind, player_state)]
    /\ UNCHANGED <<rules, session, player_state, player_evaluator, players, result>>

\* player.last()
CallLast ==
    /\ out' = [op |-> "last", self |-> player_state, res |-> TurnLast(rules.kind, player_state)]
    /\ UNCHANGED <<rules, session, player_state, player_evaluator, players, result>>

\* player.next_mut()
CallNextMut ==
    /\ player_state' = TurnNextMut(rules.kind, player_state)
    /\ out' = [op |-> "next_mut", self |-> player_state, res |-> Unit]
    /\ UNCHANGED <<rules, session, player_evaluator, players, result>>

\* player.last_mut()
CallLastMut ==
    /\ player_state' = TurnLastMut(rules.kind, player_state)
    /\ out' = [op |-> "last_mut", self |-> player_state, res |-> Unit]
    /\ UNCHANGED <<rules, session, player_evaluator, players, result>>

TurnSpecNext ==
    \/ CallNext
    \/ CallLast
    \/ CallNextMut
    \/ CallLastMut

TurnSpec == TurnInit /\ [][TurnSpecNext]_vars

(***************************************************************************)
(* Transitions with any action.  A BoardState is taken through apply and   *)
(* apply_mut, which refuse an illegal action and know no end of the game;  *)
(* a MaskedTicTacToe through apply, apply_unchecked and                    *)
(* apply_unchecked_mut, which take whatever single-square action they are  *)
(* given.  out records the call: its action and whether it was legal.      *)
(***************************************************************************)
MaxAnyPlies == 4

AnyMoveInit ==
    /\ \/ /\ session = "AnyBoard"
          /\ rules = << >>
          /\ player_state = BoardDefault
       \/ /\ session = "AnyMasked"
          /\ rules \in MaskedArrays
          /\ player_state = MaskedNew(rules)
    /\ player_evaluator = << >>
    /\ players = << >>
    /\ result = None
    /\ out = [op |-> "none"]

\* BoardState: state = state.apply(&a)? while it returns Ok
AnyBoardApply(a) ==
    /\ session = "AnyBoard"
    /\ \E applied \in {BoardApply(player_state, a)} :
          /\ player_state' = IF applied.tag = "Ok" THEN applied.val ELSE player_state
          /\ out' = [op |-> "apply", action |-> a, legal |-> applied.tag = "Ok"]
    /\ UNCHANGED <<rules, session, player_evaluator, players, result>>

\* BoardState: state.apply_mut(&a)
AnyBoardApplyMut(a) ==
    /\ session = "AnyBoard"
    /\ \E r \in {BoardApplyMut(player_state, a)} :
          /\ player_state' = r.self
          /\ out' = [op |-> "apply_mut", action |-> a, legal |-> r.res.tag = "Ok"]
    /\ UNCHANGED <<rules, session, player_evaluator, players, result>>

\* MaskedTicTacToe: state.apply(&a), the state of the ApplyResult taken
AnyMaskedApply(a) ==
    /\ session = "AnyMasked"
    /\ Len(player_state.history) < MaxAnyPlies
    /\ player_state' = MaskedApply(player_state, a).state
    /\ out' = [op |-> "apply", action |-> a, legal |-> MaskedIsLegal(player_state, a)]
    /\ UNCHANGED <<rules, session, player_evaluator, players, result>>

\* MaskedTicTacToe: state = state.apply_unchecked(&a)
AnyMaskedApplyUnchecked(a) ==
    /\ session = "AnyMasked"
    /\ Len(player_state.history) < MaxAnyPlies
    /\ player_state' = MaskedApplyUnchecked(player_state, a)
    /\ out' = [op |-> "apply_unchecked", action |-> a,
               legal |-> MaskedIsLegal(player_state, a)]
    /\ UNCHANGED <<rules, session, player_evaluator, players, result>>

\* MaskedTicTacToe: state.apply_unchecked_mut(&a)
AnyMaskedApplyUncheckedMut(a) ==
    /\ session = "AnyMasked"
    /\ Len(player_state.history) < MaxAnyPlies
    /\ player_state' = MaskedApplyUncheckedMut(player_state, a)
    /\ out' = [op |-> "apply_unchecked_mut", action |-> a,
               legal |-> MaskedIsLegal(player_state, a)]
    /\ UNCHANGED <<rules, session, player_evaluator, players, result>>

AnyMoveNext ==
    \/ \E i \in 1..9 : AnyBoardApply(ALL_MOVES[i])
    \/ \E i \in 1..9 : AnyBoardApplyMut(ALL_MOVES[i])
    \/ \E i \in 1..9 : AnyMaskedApply(ALL_ACTIONS[i])
    \/ \E i \in 1..9 : AnyMaskedApplyUnchecked(ALL_ACTIONS[i])
    \/ \E i \in 1..9 : AnyMaskedApplyUncheckedMut(ALL_ACTIONS[i])

AnyMoveSpec == AnyMoveInit /\ [][AnyMoveNext]_vars

(***************************************************************************)
(* The loops of GamePlayer (src/game_player.rs) by program position, on    *)
(* the MaskedTicTacToe that main() builds.  players is the call: play, or  *)
(* play_interactive with its argument player_starts.  out.pc is the        *)
(* position: "entry", "strategy" (the strategy is asked next), "user"      *)
(* (get_user_input is called next), "returned".  out.log lists the         *)
(* actions handed to apply and who gave them.  The strategy and the user   *)
(* may give any of the nine actions.                                       *)
(***************************************************************************)
MaxLoopPlies == 5

\* main: let masked = [ALL_ACTIONS[0], ALL_ACTIONS[1]]
MainMasked == << ALL_ACTIONS[1], ALL_ACTIONS[2] >>

LoopCalls ==
    {[fn |-> "play", player_starts |-> FALSE],
     [fn |-> "play_interactive", player_starts |-> TRUE],
     [fn |-> "play_interactive", player_starts |-> FALSE]}

\* the match on the ApplyResult storing the final state in the player as well
MatchApplyStore(state, applied) ==
    IF applied.tag = "Ongoing" THEN [state |-> applied.state, returned |-> None]
    ELSE [state |-> applied.state, returned |-> applied]

\* the match on the ApplyResult that does not replace the state
MatchApplyKeep(state, applied) ==
    IF applied.tag = "Ongoing" THEN [state |-> state, returned |-> None]
    ELSE [state |-> state, returned |-> applied]

\* match self.state.apply(&action): Ongoing(new_state) => self.state = new_state,
\* Finished(new_state, outcome) => return (new_state, outcome)
MatchApply(state, applied) ==
    IF applied.tag = "Ongoing" THEN [state |-> applied.state, returned |-> None]
    ELSE [state |-> state, returned |-> applied]

\* the strategy is asked again after its own move
AfterStrategyAgain(call) == "strategy"

\* what follows an Ongoing move of the strategy: the top of the loop of play, the
\* call of get_user_input in play_interactive
AfterStrategy(call) == IF call.fn = "play" THEN "strategy" ELSE "user"

LoopInit ==
    /\ session = "Loop"
    /\ rules = MainMasked
    /\ player_state = MaskedNew(rules)
    /\ player_evaluator = << >>
    /\ players \in LoopCalls
    /\ result = None
    /\ out = [pc |-> "entry", log |-> << >>]

\* play() reaches its loop
EnterPlay ==
    /\ session = "Loop" /\ out.pc = "entry"
    /\ players.fn = "play"
    /\ out' = [out EXCEPT !.pc = "strategy"]
    /\ UNCHANGED <<rules, session, player_state, player_evaluator, players, result>>

\* play_interactive(player_starts): if player_starts the user moves before the loop
EnterInteractive ==
    /\ session = "Loop" /\ out.pc = "entry"
    /\ players.fn = "play_interactive"
    /\ out' = [out EXCEPT !.pc = IF players.player_starts THEN "user" ELSE "strategy"]
    /\ UNCHANGED <<rules, session, player_state, player_evaluator, players, result>>

\* let best_action = self.strategy.choose(..); match self.state.apply(&best_action)
StrategyTurn(a) ==
    /\ session = "Loop" /\ out.pc = "strategy"
    /\ Len(player_state.history) < MaxLoopPlies
    /\ \E m \in {MatchApply(player_state, MaskedApply(player_state, a))} :
          /\ player_state' = m.state
          /\ result' = m.returned
          /\ out' = [pc |-> IF m.returned # None THEN "returned" ELSE AfterStrategy(players),
                     log |-> Append(out.log, [by |-> "Strategy", action |-> a])]
    /\ UNCHANGED <<rules, session, player_evaluator, players>>

\* let action = self.state.get_user_input(); match self.state.apply(&action)
UserTurn(a) ==
    /\ session = "Loop" /\ out.pc = "user"
    /\ Len(player_state.history) < MaxLoopPlies
    /\ \E m \in {MatchApply(player_state, MaskedApply(player_state, a))} :
          /\ player_state' = m.state
          /\ result' = m.returned
          /\ out' = [pc |-> IF m.returned # None THEN "returned" ELSE "strategy",
                     log |-> Append(out.log, [by |-> "User", action |-> a])]
    /\ UNCHANGED <<rules, session, player_evaluator, players>>

LoopNext ==
    \/ EnterPlay
    \/ EnterInteractive
    \/ \E i \in 1..9 : StrategyTurn(ALL_ACTIONS[i])
    \/ \E i \in 1..9 : UserTurn(ALL_ACTIONS[i])

LoopSpec == LoopInit /\ [][LoopNext]_vars

(***************************************************************************)
(* Failed attempts, legal actions and turn order.                          *)
(***************************************************************************)
\* C21: an action of MaskedTicTacToe on a masked square the opponent holds changes
\* neither board, is appended to the history, is recorded in no_action and passes the
\* turn; and a player who completes a line holding squares the opponent made failed
\* attempts on wins
FailedAttemptIsSilent ==
    [][LET h == player_state.history
           a == player_state'.history[Len(player_state'.history)]
       IN  /\ (Square(a) \in MaskedSquares /\ Square(a) \in Held(h, 1 - ToMove, Len(h))) =>
                  /\ player_state'.board = player_state.board
                  /\ player_state'.history = Append(h, a)
                  /\ Square(a) \in player_state'.no_action
                  /\ player_state'.current_player # player_state.current_player
                  /\ Held(player_state'.history, 1 - ToMove, Len(h) + 1)
                         = Held(h, 1 - ToMove, Len(h))
           /\ Completed(Held(player_state'.history, ToMove, Len(h) + 1)) =>
                  /\ result' # None
                  /\ result'.outcome = Win(player_state.current_player)
      ]_vars

\* a player has won with a line that holds a square the opponent made a failed attempt on
CopiedSquareWinSeen ==
    /\ session = "Masked"
    /\ result # None
    /\ result.outcome = Win(LastPlayer(player_state))
    /\ \E line \in Lines :
          /\ line \subseteq Held(player_state.history, 1 - ToMove, Len(player_state.history))
          /\ line \cap FailedAttempts(player_state.history, ToMove) # {}
          /\ line \cap player_state.no_action # {}

\* C22: every state reached by legal actions from the initial position whose outcome()
\* is None has a legal action, in BoardState and in MaskedTicTacToe; and MinMax on
\* such a BoardState returns an action, not NoLegalActions or StrategyFailure
OngoingStateHasLegalAction ==
    /\ session = "LegalBoard" =>
          /\ BoardOutcome(player_state) = None => LegalActions(player_state) # << >>
          /\ (BoardOutcome(player_state) = None /\ Cardinality(Empty(player_state)) <= MaxEmpty)
                => MinMaxBestAction(player_state, EndStateEvaluatorNew).res.tag = "Ok"
    /\ session = "LegalMasked" =>
          (MaskedOutcome(player_state) = None => MaskedLegalActions(player_state) # << >>)

\* a game of MaskedTicTacToe that is not over has one legal action left, a masked
\* square being closed to the player to move by their failed attempt
LastLegalActionSeen ==
    /\ session = "LegalMasked"
    /\ MaskedOutcome(player_state) = None
    /\ Len(MaskedLegalActions(player_state)) = 1
    /\ player_state.no_action # {}
    /\ \E i \in 1..Len(rules) :
          /\ ~PlayerOccupies(player_state, player_state.current_player, rules[i])
          /\ ~MaskedIsLegal(player_state, rules[i])

\* the place of action a in the static table of nine actions
TableIndex(a) == CHOOSE i \in 1..9 : ALL_MOVES[i] = a

RECURSIVE TurnNextTimes(_, _, _)
TurnNextTimes(kind, p, k) == IF k = 0 THEN p ELSE TurnNextTimes(kind, TurnNext(kind, p), k - 1)

\* C24: for Player and NPlayer with n players next() takes index i to (i + 1) mod n
\* and last() takes it to (i - 1) mod n, each undoes the other, n times next is the
\* identity and the index stays in 0..n-1; TwoPlayer alternates between two
\* identities, twice next is the identity and last() is next(); next_mut and last_mut
\* do what next and last do
TurnOrderIsCyclic ==
    LET kind == rules.kind
        n == rules.n
        p == player_state
        i == TurnIndex(kind, p)
    IN  /\ i \in 0..(n - 1)
        /\ TurnIndex(kind, TurnNext(kind, p)) = (i + 1) % n
        /\ TurnIndex(kind, TurnLast(kind, p)) = (i + n - 1) % n
        /\ TurnLast(kind, TurnNext(kind, p)) = p
        /\ TurnNext(kind, TurnLast(kind, p)) = p
        /\ TurnNextTimes(kind, p, n) = p
        /\ \A k \in 1..(n - 1) : TurnNextTimes(kind, p, k) # p
        /\ kind = "TwoPlayer" => TurnLast(kind, p) = TurnNext(kind, p)
        /\ out.op = "next_mut" => p = TurnNext(kind, out.self)
        /\ out.op = "last_mut" => p = TurnLast(kind, out.self)
        /\ out.op = "next" => TurnIndex(kind, out.res) = (TurnIndex(kind, out.self) + 1) % n
        /\ out.op = "last" => TurnIndex(kind, out.res) = (TurnIndex(kind, out.self) + n - 1) % n

\* last_mut has taken a player of more than two from index 0 to the last index
WrapAroundSeen ==
    /\ session = "Turn"
    /\ rules.n > 2
    /\ out.op = "last_mut"
    /\ TurnIndex(rules.kind, out.self) = 0
    /\ TurnIndex(rules.kind, player_state) = rules.n - 1

\* the pairs the match of evaluate has an arm for other than unreachable!()
SoundPairs == ((-1..1) \X (-1..1)) \ {<<1, 1>>, <<1, 0>>, <<0, 1>>}

\* C25: evaluate(s, a) on a state that is not over with a legal action hits no
\* unreachable!(): the pair it returns and every pair a recursive evaluation returned
\* (they are all cached) has components in -1..1 and is none of (1, 1), (1, 0),
\* (0, 1), and in no candidate state does a legal action give a win to the player
\* who did not make it
NoUnreachableArm ==
    session = "MaskedEvaluator" =>
        /\ \A key \in DOMAIN player_evaluator.visited : player_evaluator.visited[key] \in SoundPairs
        /\ out.op = "evaluate" => ~out.panic /\ out.res \in SoundPairs
        /\ result = None =>
              \A c \in Range(Superposition(Genesis(player_state), VisibleHistory(player_state))) :
                  \A i \in 1..9 :
                      MaskedIsLegal(c, ALL_ACTIONS[i]) =>
                          MaskedOutcome(MaskedApplyUnchecked(c, ALL_ACTIONS[i]))
                              \in {None, Draw, Win(player_state.current_player)}

\* evaluate has returned after recursive evaluations over several candidate states
RecursiveEvaluationSeen ==
    /\ session = "MaskedEvaluator"
    /\ out.op = "evaluate" /\ ~out.panic
    /\ Cardinality(DOMAIN player_evaluator.visited) > 2
    /\ Len(Superposition(Genesis(out.state), VisibleHistory(out.state))) > 1

\* C26: in a game of MaskedTicTacToe with N masked squares played with legal actions
\* every action lengthens the history by one, the history never holds more than
\* 9 + N actions and the game is over when it holds 9 + N; so a state evaluate can be
\* called on, one that is not over, has a visible history of at most 11 entries when
\* N = 2 and the length guard of evaluate does not fire
HistoryIsBounded ==
    [][session = "LegalMasked" =>
          /\ Len(player_state'.history) = Len(player_state.history) + 1
          /\ Len(player_state'.history) <= 9 + Len(rules)
          /\ Len(player_state'.history) = 9 + Len(rules) => result' # None
          /\ (result' = None /\ Len(rules) <= 2) => ~(Len(VisibleHistory(player_state')) > 11)
      ]_vars

\* a game with two masked squares is over after 11 actions, two of them failed attempts
LongestGameSeen ==
    /\ session = "LegalMasked"
    /\ Len(rules) = 2
    /\ result # None
    /\ Len(player_state.history) = 11
    /\ Cardinality(player_state.no_action) = 2

\* C27: a state reached by legal actions whose game is not over is one of the states
\* of superposition(s.genesis(), s.visible_history())
TrueStateIsCandidate ==
    (session = "MaskedEvaluator" /\ result = None) =>
        \E k \in 1..Len(Superposition(Genesis(player_state), VisibleHistory(player_state))) :
            Superposition(Genesis(player_state), VisibleHistory(player_state))[k] = player_state

\* evaluate has run on a state that is not the first of the candidates of its
\* superposition, the opponent having made a masked action
TrueStateNotFirstSeen ==
    /\ session = "MaskedEvaluator"
    /\ out.op = "evaluate" /\ out.state = player_state
    /\ Len(Superposition(Genesis(player_state), VisibleHistory(player_state))) > 1
    /\ Superposition(Genesis(player_state), VisibleHistory(player_state))[1] # player_state
    /\ \E n \in 1..Len(player_state.history) : VisibleHistory(player_state)[n] = Invisible

\* C28: every state of superposition(genesis, h) has outcome() None and a history of
\* len(h) actions that is the action of h at every Visible and Masked entry and, at
\* every Invisible entry, a masked action that was legal for the player to move
CandidatesMatchObservation ==
    session = "MaskedEvaluator" =>
        LET h == VisibleHistory(player_state)
        IN  \A c \in Range(Superposition(Genesis(player_state), h)) :
                /\ MaskedOutcome(c) = None
                /\ Len(c.history) = Len(h)
                /\ \A n \in 1..Len(h) :
                      IF h[n].tag \in {"Visible", "Masked"}
                      THEN c.history[n] = h[n].action
                      ELSE LET before == ReplayFrom(Genesis(player_state),
                                                    SubSeq(c.history, 1, n - 1))
                           IN  /\ IsMasked(c, c.history[n])
                               /\ before # None
                               /\ MaskedIsLegal(before.val, c.history[n])

\* the superposition holds a state whose hidden action is a failed attempt, and a
\* hidden action that would have ended the game has been left out
PrunedCandidateSeen ==
    /\ session = "MaskedEvaluator"
    /\ out.op = "evaluate"
    /\ \E c \in Range(Superposition(Genesis(player_state), VisibleHistory(player_state))) :
          c.no_action # {}
    /\ \E s2 \in {ReplayFrom(Genesis(player_state), h) :
                      h \in Variants(player_state.masked, player_state.history)} :
          /\ s2 # None
          /\ MaskedOutcome(s2.val) # None

\* the candidate states of s in which action is legal
LegalCandidates(s, action) ==
    SelectSeq(Superposition(Genesis(s), VisibleHistory(s)), LAMBDA c : MaskedIsLegal(c, action))

\* the outcomes action has at once in the candidate states of s in which it is legal
ImmediateOutcomes(s, action) ==
    {MaskedOutcome(MaskedApplyUnchecked(c, action)) : c \in Range(LegalCandidates(s, action))}

\* C29: evaluate(s, a) returns their bound -1 when a wins at once for the mover in some
\* candidate state in which a is legal, returns both bounds at most 0 when a gives a
\* Draw in some such candidate, and returns what the candidates in which a is legal
\* give by themselves: the initial bounds (1, 1) when a is legal in none
ImmediateOutcomesBound ==
    (session = "MaskedEvaluator" /\ out.op = "evaluate" /\ out.state = player_state) =>
        /\ ~out.panic
        /\ Win(out.state.current_player) \in ImmediateOutcomes(out.state, out.action)
              => out.res[2] = -1
        /\ Draw \in ImmediateOutcomes(out.state, out.action)
              => out.res[1] <= 0 /\ out.res[2] <= 0
        /\ LET l == CandidateLoop([self |-> MaskedEvaluatorNew,
                                   superposition |-> LegalCandidates(out.state, out.action),
                                   current_player |-> out.state.current_player,
                                   action |-> out.action,
                                   my_eval |-> 1, their_eval |-> 1, panic |-> FALSE])
           IN  out.res = <<l.my_eval, l.their_eval>>
        /\ \A i \in 1..9 :
              LegalCandidates(out.state, ALL_ACTIONS[i]) = << >>
                  => FreshPair(out.state, ALL_ACTIONS[i]) = <<1, 1>>

\* evaluate has returned for an action that wins at once in one candidate state and
\* not in another
WinInSomeCandidateSeen ==
    /\ session = "MaskedEvaluator"
    /\ out.op = "evaluate" /\ ~out.panic
    /\ Win(out.state.current_player) \in ImmediateOutcomes(out.state, out.action)
    /\ Cardinality(ImmediateOutcomes(out.state, out.action)) > 1
    /\ out.res[2] = -1

\* the backward-induction value, for the player to move in s, of the legal action a
\* in tic-tac-toe: 1 a win, 0 a draw, -1 a loss with best play of both players
RECURSIVE MoveValue(_, _)
MoveValue(s, a) ==
    LET next_state == MaskedApplyUnchecked(s, a)
    IN  IF MaskedOutcome(next_state) = Win(s.current_player) THEN 1
        ELSE IF MaskedOutcome(next_state) = Draw THEN 0
        ELSE -Max({MoveValue(next_state, b) : b \in Range(MaskedLegalActions(next_state))})

\* C30: with no masked square no attempt fails and the legal actions are the empty
\* squares, as in tic-tac-toe, and evaluate(s, a) on a state that is not over and a
\* legal action a is (v, -v), v being the backward-induction value of a for the mover
NoMaskIsMinimax ==
    (session = "MaskedEvaluator" /\ rules = << >>) =>
        /\ player_state.no_action = {}
        /\ \A i \in 1..9 :
              MaskedIsLegal(player_state, ALL_ACTIONS[i]) <=> (i - 1) \in Empty(player_state)
        /\ (out.op = "evaluate" /\ out.state = player_state) =>
              /\ ~out.panic
              /\ out.res = <<MoveValue(out.state, out.action),
                             -MoveValue(out.state, out.action)>>

\* evaluate in a game with no masked square has returned (1, -1) for an action that
\* does not win at once, and in another position (-1, 1)
ForcedWinWithoutMaskSeen ==
    /\ session = "MaskedEvaluator" /\ rules = << >>
    /\ out.op = "evaluate" /\ ~out.panic
    /\ MaskedOutcome(MaskedApplyUnchecked(out.state, out.action)) = None
    /\ out.res \in {<<1, -1>>, <<-1, 1>>}

(***************************************************************************)
(* Caches, the scan of evaluate, boards and outcomes.                      *)
(***************************************************************************)
\* C31: a call evaluate(s, a) on an instance on which evaluate(s, a) has returned
\* before returns the cached pair, builds no superposition, makes no recursive call
\* of evaluate and leaves the cache as it was
RepeatedEvaluateIsLookup ==
    (session = "MaskedEvaluator" /\ out.op = "evaluate" /\ out.hit) =>
        /\ ~out.panic
        /\ out.res = out.before[<<VisibleHistory(out.state), out.action>>]
        /\ out.calls = 1
        /\ out.built = 0
        /\ player_evaluator.visited = out.before

\* the second call on the instance repeats the first one, which had made recursive calls
RepeatedEvaluateSeen ==
    /\ session = "MaskedEvaluator"
    /\ out.op = "evaluate" /\ out.n = 2 /\ out.hit
    /\ Cardinality(DOMAIN player_evaluator.visited) > 2

\* C32: when the state reached by the action has no outcome, evaluate evaluates its
\* legal actions in order; at the first one that is a win for the player to move in
\* that state it returns that win and evaluates no further action; with no such
\* action it returns Draw when some action evaluates to Draw, and otherwise a win of
\* the player who made the evaluated action
EvaluateScansChildren ==
    out.op = "evaluate" =>
        LET applied == Apply(out.state, out.action)
            acts == LegalActions(applied.val)
            runs == [i \in DOMAIN acts |-> Fresh(applied.val, acts[i])]
            evals == [i \in DOMAIN acts |-> runs[i].res]
            stops == Stops(evals, CurrentPlayer(applied.val))
            draws == {i \in DOMAIN acts : evals[i] = Ok(Draw)}
        IN  (applied.tag = "Ok" /\ Outcome(applied.val) = None /\ acts # << >>)
            => /\ (stops # {} /\ evals[Min(stops)].tag = "Ok")
                  => /\ out.res = Ok(Win(CurrentPlayer(applied.val)))
                     /\ out.nested = SumCalls(runs, Min(stops))
                     /\ out.last = runs[Min(stops)].self.last
               /\ (stops = {} /\ draws # {})
                  => /\ out.res = Ok(Draw)
                     /\ out.nested = SumCalls(runs, Len(acts))
               /\ (stops = {} /\ draws = {})
                  => /\ out.res = Ok(Win(CurrentPlayer(out.state)))
                     /\ out.nested = SumCalls(runs, Len(acts))

\* evaluate has returned the win of the first action of the state reached, a state
\* that has a second legal action
FirstChildWinSeen ==
    /\ out.op = "evaluate" /\ out.nested = 1
    /\ Apply(out.state, out.action).tag = "Ok"
    /\ Len(LegalActions(Apply(out.state, out.action).val)) >= 2
    /\ out.res = Ok(Win(CurrentPlayer(Apply(out.state, out.action).val)))

\* a step keeps every entry of the cache, with its outcome
CacheEntriesKept ==
    \A g \in DOMAIN player_evaluator.visited :
        /\ g \in DOMAIN player_evaluator'.visited
        /\ player_evaluator'.visited[g] = player_evaluator.visited[g]

\* C33: every entry (g, o) of the cache of an EndStateEvaluator has
\* g.outcome() = Some(o), and no call of the evaluator removes an entry or changes
\* the outcome stored for it
CacheHoldsOutcomes ==
    /\ [](session \in {"EndState", "Table"}
            => \A g \in DOMAIN player_evaluator.visited :
                  /\ Outcome(g) # None
                  /\ player_evaluator.visited[g] = Outcome(g))
    /\ [][(session \in {"EndState", "Table"}) => CacheEntriesKept]_vars

\* a call has added an entry to a cache that held one, and the cache holds both
CacheGrowthSeen ==
    /\ session = "EndState" /\ out.op = "evaluate" /\ ~out.hit
    /\ out.res.tag = "Ok"
    /\ Apply(out.state, out.action).val \in DOMAIN player_evaluator.visited
    /\ Cardinality(DOMAIN player_evaluator.visited) >= 2

\* C34: the boards of the two players never share a square: in a BoardState reached
\* through apply, where the sum of the two boards that is_draw compares is therefore
\* their union, and in a MaskedTicTacToe after any calls of apply, apply_unchecked
\* and apply_unchecked_mut with single-square actions, legal or not
BoardsNeverShare ==
    /\ session = "AnyBoard" =>
          /\ BitAnd(player_state.board[1], player_state.board[2]) = {}
          /\ U16(player_state.board[1]) + U16(player_state.board[2])
                = U16(BitOr(player_state.board[1], player_state.board[2]))
          /\ BoardIsDraw(player_state)
                <=> BitOr(player_state.board[1], player_state.board[2]) = FULL
    /\ session = "AnyMasked" =>
          BitAnd(player_state.board[1], player_state.board[2]) = {}

\* an illegal action on a square without mask that the opponent holds has been
\* applied to a MaskedTicTacToe: it is recorded as a failed attempt
OpponentSquareTriedSeen ==
    /\ session = "AnyMasked"
    /\ out.op \in {"apply", "apply_unchecked"} /\ ~out.legal
    /\ ~IsMasked(player_state, out.action)
    /\ PlayerOccupies(player_state, player_state.current_player, out.action)
    /\ BitBoardIsOccupied(player_state.no_action, out.action)

\* the step of a call of apply_unchecked_mut, or of an apply_mut that was not refused,
\* leaves the state that the copying transition returns
InPlaceStepAgrees ==
    /\ out'.op = "apply_unchecked_mut"
          => player_state' = MaskedApplyUnchecked(player_state, out'.action)
    /\ (out'.op = "apply_mut" /\ out'.legal)
          => player_state' = BoardApplyUnchecked(player_state, out'.action)

\* C40: for every state and action, MaskedTicTacToe.apply_unchecked_mut leaves the
\* state equal to the value apply_unchecked returns, in boards, failed attempts,
\* history, player to move and masked set, and BoardState.apply_mut_unchecked leaves
\* the state equal to the value BoardState.apply_unchecked returns
InPlaceAgreesWithCopy ==
    /\ [](session = "AnyMasked"
            => \A i \in 1..9 : MaskedApplyUncheckedMut(player_state, ALL_ACTIONS[i])
                                  = MaskedApplyUnchecked(player_state, ALL_ACTIONS[i]))
    /\ [](session = "AnyBoard"
            => \A i \in 1..9 : BoardApplyMutUnchecked(player_state, ALL_MOVES[i])
                                  = BoardApplyUnchecked(player_state, ALL_MOVES[i]))
    /\ [][InPlaceStepAgrees]_vars

\* apply_unchecked_mut has recorded a failed attempt on a square the opponent holds
InPlaceFailedAttemptSeen ==
    /\ session = "AnyMasked" /\ out.op = "apply_unchecked_mut"
    /\ PlayerOccupies(player_state, player_state.current_player, out.action)
    /\ BitBoardIsOccupied(player_state.no_action, out.action)
    /\ Len(player_state.history) >= 3

\* C35: when the move that fills the last empty square completes a line for the
\* mover, outcome() is Win(mover) and not Draw, for BoardState and for
\* MaskedTicTacToe; and Draw is the outcome only of a full board on which the last
\* mover has no line
LastSquareWinIsWin ==
    (session \in {"LegalBoard", "LegalMasked"} /\ result # None) =>
        LET s == result.state
            full == BitOr(s.board[1], s.board[2]) = FULL
            mover == IF session = "LegalBoard" THEN PlayerLast(s.current_player)
                     ELSE LastPlayer(s)
            index == IF session = "LegalBoard" THEN player_index(mover)
                     ELSE TwoPlayerIndex(mover)
            line == HasLine(s.board[index + 1])
        IN  /\ (full /\ line) => result.outcome = Win(mover)
            /\ result.outcome = Draw => (full /\ ~line)

\* a game of MaskedTicTacToe with masked squares has ended with a win on the move
\* that filled the board
LastSquareWinSeen ==
    /\ session = "LegalMasked" /\ rules # << >> /\ result # None
    /\ BitOr(result.state.board[1], result.state.board[2]) = FULL
    /\ result.outcome = Win(LastPlayer(result.state))

\* C36: when the state has a legal action and every evaluation that best_action asks
\* for succeeds, MinMax.best_action returns Ok(a) with a one of the legal actions of
\* the state; and it never returns StrategyFailure
MinMaxReturnsLegalAction ==
    out.op = "minmax" =>
        LET acts == LegalActions(out.state)
        IN  /\ (acts # << >> /\ \A i \in DOMAIN out.trace : out.trace[i].eval.tag = "Ok")
                  => /\ out.res.tag = "Ok"
                     /\ \E i \in DOMAIN acts : acts[i] = out.res.val
                     /\ IsLegal(out.state, out.res.val)
            /\ ~(out.res.tag = "Err" /\ out.res.err.kind = "StrategyFailure")

\* best_action has returned an action of a state all of whose actions, more than
\* one, are evaluated as a win of the opponent
LostPositionSeen ==
    /\ out.op = "minmax" /\ out.res.tag = "Ok"
    /\ Len(out.trace) = Len(LegalActions(out.state)) /\ Len(out.trace) >= 2
    /\ \A i \in DOMAIN out.trace :
          /\ out.trace[i].eval.tag = "Ok"
          /\ out.trace[i].eval.val # Draw
          /\ out.trace[i].eval.val # Win(CurrentPlayer(out.state))

(***************************************************************************)
(* The loops of GamePlayer.                                                *)
(***************************************************************************)
\* the state after the first k actions of the log, from the initial state
RECURSIVE Replay(_)
Replay(k) ==
    IF k = 0 THEN MaskedNew(rules)
    ELSE MaskedApplyUnchecked(Replay(k - 1), out.log[k].action)

\* C37: play asks the strategy for every action and applies exactly that action; it
\* replaces its state on every Ongoing result and returns the final state and the
\* outcome at the first Finished result: the state returned is what the chosen
\* actions lead to, in order, from the initial state, and play has returned exactly
\* when a Finished result was reached
PlayAppliesTheChosenActions ==
    (session = "Loop" /\ players.fn = "play") =>
        /\ \A i \in DOMAIN out.log : out.log[i].by = "Strategy"
        /\ result = None =>
              /\ out.pc # "returned"
              /\ player_state = Replay(Len(out.log))
              /\ \A k \in 0..Len(out.log) : MaskedOutcome(Replay(k)) = None
        /\ result # None =>
              /\ out.pc = "returned"
              /\ result.tag = "Finished"
              /\ result.state = Replay(Len(out.log))
              /\ result.outcome # None
              /\ result.outcome = MaskedOutcome(Replay(Len(out.log)))
              /\ \A k \in 0..(Len(out.log) - 1) : MaskedOutcome(Replay(k)) = None

\* play has returned a game of five actions
PlayReturnedSeen ==
    /\ session = "Loop" /\ players.fn = "play"
    /\ result # None /\ Len(out.log) = 5

\* who gives action i of play_interactive
TurnOf(i) == IF (i % 2 = 1) = players.player_starts THEN "User" ELSE "Strategy"

\* C38: in play_interactive the user and the strategy alternate, one action applied
\* per turn, the user first exactly when player_starts is true; the call returns the
\* final state and the outcome at the first Finished result of either side, and
\* nobody moves after it
InteractiveTurnsAlternate ==
    /\ []((session = "Loop" /\ players.fn = "play_interactive") =>
            /\ \A i \in DOMAIN out.log : out.log[i].by = TurnOf(i)
            /\ Len(out.log) = Len(player_state.history) + (IF result # None THEN 1 ELSE 0)
            /\ \A k \in 0..(Len(out.log) - 1) : MaskedOutcome(Replay(k)) = None
            /\ result = None => MaskedOutcome(Replay(Len(out.log))) = None
            /\ result # None =>
                  /\ result.state = Replay(Len(out.log))
                  /\ result.outcome = MaskedOutcome(Replay(Len(out.log)))
                  /\ result.outcome # None)
    /\ [][(session = "Loop" /\ players.fn = "play_interactive") => result = None]_vars

\* a game that the strategy began has returned on a move of the user, and another on
\* a move of the strategy
InteractiveReturnedSeen ==
    /\ session = "Loop" /\ players.fn = "play_interactive" /\ ~players.player_starts
    /\ result # None /\ Len(out.log) = 5
    /\ out.log[5].by = "Strategy" /\ out.log[4].by = "User"

\* the step that returns leaves the fields of the player as they were
ReturnKeepsPlayer ==
    (session = "Loop" /\ result = None /\ result' # None)
        => /\ player_state' = player_state
           /\ player_evaluator' = player_evaluator

\* C39: when play or play_interactive has returned, the state field of the player
\* holds the last state that was not final, the one the final action was applied to,
\* and not the final state returned; the Finished branch changes nothing in the player
PlayerKeepsLastOngoingState ==
    /\ []((session = "Loop" /\ result # None) =>
            /\ player_state # result.state
            /\ MaskedOutcome(player_state) = None
            /\ player_state = Replay(Len(out.log) - 1)
            /\ result.state = MaskedApplyUnchecked(player_state, out.log[Len(out.log)].action))
    /\ [][ReturnKeepsPlayer]_vars

\* play_interactive has returned on a move of the user after moves of both sides
StaleStateSeen ==
    /\ session = "Loop" /\ players.fn = "play_interactive" /\ players.player_starts
    /\ result # None /\ Len(out.log) = 5
    /\ out.log[5].by = "User"
    /\ Len(player_state.history) = 4

====
